---- MODULE Spec2Model ----
(***************************************************************************)
(* Open-Instruct resilience layer (backend/src/core/error_handlers.py):    *)
(* the CircuitBreaker state machine, driven by one caller (Spec) and by    *)
(* concurrent callers (SpecConc), and the retry_with_exponential_backoff   *)
(* wrapper (SpecRetry).                                                    *)
(*                                                                         *)
(* Time is counted in ticks of 1/TicksPerSecond seconds, so that the       *)
(* sub-second part of datetime.now() differences, which int() truncates,   *)
(* is visible.                                                             *)
(***************************************************************************)
EXTENDS Integers, Sequences, FiniteSets

\* ----------------------------------------------------------------- bounds
MaxFailureThreshold == 3
MaxTimeoutSeconds == 2
MaxHalfOpenAttempts == 2
TicksPerSecond == 2
MaxTime == 6
NumThreads == 2
MaxCallsPerThread == 2
MaxAttempts == 3
MaxBaseDelay == 2
MaxMaxDelay == 4
\* timeout_seconds of timeout_wrapper, in ticks
MaxTimeoutTicks == 3
\* the largest number of objectives requested or produced
MaxObjectives == 3
\* the longest verb list a caller builds by appending
MaxListLen == 2
\* the longest list passed to add_objectives
MaxBatch == 2

\* -------------------------------------------------------------- constants
\* CircuitState
CLOSED == "closed"
OPEN == "open"
HALF_OPEN == "half_open"

\* last_failure_time: Optional[datetime] = None
None == -1

VARIABLES
    \* CircuitBreaker fields
    failure_threshold, timeout_seconds, half_open_attempts,
    state, failures, last_failure_time, half_open_success_count,
    \* datetime.now(), in ticks
    now,
    \* the single caller of Spec: where it is inside call(), what the last
    \* call did, and what the rejection reported
    pc, outcome, remaining_msg, retry_after_seconds,
    \* observations of the call history since construction or reset()
    run, fullRun, allFail, hoSucc,
    \* the callers of SpecConc: position, the value read by "+= 1", calls
    \* started, last outcome; whether reset() ran
    tpc, treg, tcalls, toutcome, resets,
    \* retry_with_exponential_backoff: arguments, loop state, and what each
    \* invocation of func did, what was slept, returned and raised
    max_attempts, base_delay, max_delay, exceptions,
    attempt, rpc, calls, last_exception, sleeps, result, cause,
    \* generate_with_fallback: the result of the health probe of the request
    \* in hand and its cache_key argument
    probe, cache_key,
    \* timeout_wrapper: its argument in ticks, where the caller is, what the
    \* worker thread does, whether func ever finishes, and the times of the
    \* submit and of the caller getting its answer
    tw_timeout, twpc, worker, hangs, submitted_at, received_at,
    \* Architect.generate_objectives: the requested count, what the backend
    \* answers, where the request is, backend calls made, what came back
    \* and which violated rules the raised error names
    num_objectives, backend, gpc, backend_calls, returned_count, gen_error,
    gen_rules,
    \* Assessor.generate_quiz: where the request is, the loop variable of
    \* forward, the backend's latest answer, backend calls made, the exception
    \* that left generate_quiz and the rules its message names
    qpc, qattempt, qbackend, qcalls, qerror, qrules,
    \* BloomsTaxonomy: the class attribute VERBS (level -> list object), the
    \* list objects, a dict obtained from get_all_verbs() and whether one was
    \* obtained; the arguments and the result of the last validate_verb
    VERBS, lists, copy, has_copy, vverb, vlevel, vresult,
    \* ObjectiveStore._objectives, the last get_objective(id) and its result
    objectives, got_id, got,
    \* /health: what test_ollama_connection found, the status reported, and
    \* the breaker's state when the endpoint answered
    ollama_connected, health_status, checked_state,
    \* the exception that func last raised inside CircuitBreaker.call and the
    \* one that left call() then, by their classes
    func_exc, call_exc,
    \* the last construction of a domain object: the class, the keyword
    \* arguments and what the constructor did
    built_cls, built_args, built_result,
    \* POST /api/v1/generate/objectives: the status of the last answer, the
    \* step of the handler that failed, and the store as the handler found it
    http_status, failed_at, store_before

params == <<failure_threshold, timeout_seconds, half_open_attempts>>
fields == <<state, failures, last_failure_time, half_open_success_count>>
seqVars == <<pc, outcome, remaining_msg, retry_after_seconds>>
histVars == <<run, fullRun, allFail, hoSucc>>
concVars == <<tpc, treg, tcalls, toutcome, resets>>
retryArgs == <<max_attempts, base_delay, max_delay, exceptions>>
retryVars == <<attempt, rpc, calls, last_exception, sleeps, result, cause>>
fbVars == <<probe, cache_key>>
twVars == <<tw_timeout, twpc, worker, hangs, submitted_at, received_at>>
genVars == <<num_objectives, backend, gpc, backend_calls, returned_count,
             gen_error, gen_rules>>
quizVars == <<qpc, qattempt, qbackend, qcalls, qerror, qrules>>
taxVars == <<VERBS, lists, copy, has_copy, vverb, vlevel, vresult>>
storeVars == <<objectives, got_id, got>>
healthVars == <<ollama_connected, health_status, checked_state>>
excVars == <<func_exc, call_exc>>
modelVars == <<built_cls, built_args, built_result>>
apiVars == <<http_status, failed_at, store_before>>
domainVars == <<quizVars, taxVars, storeVars, healthVars, excVars, modelVars,
                apiVars>>
layerVars == <<fbVars, twVars, genVars, domainVars>>
vars == <<params, fields, now, seqVars, histVars, concVars, retryArgs, retryVars,
          layerVars>>

Threads == 1..NumThreads

Max(a, b) == IF a >= b THEN a ELSE b
Min(a, b) == IF a <= b THEN a ELSE b

\* ------------------------------------------------- CircuitBreaker helpers

\* elapsed = datetime.now() - self.last_failure_time, in ticks
Elapsed(clock) == clock - last_failure_time

\* int(x) of a number of seconds given in ticks: truncation toward zero
IntSeconds(ticks) ==
    IF ticks >= 0 THEN ticks \div TicksPerSecond
    ELSE -((-ticks) \div TicksPerSecond)

\* _should_attempt_reset with the comparison inverted
ShouldAttemptReset_Inverted(clock) ==
    IF last_failure_time = None THEN TRUE
    ELSE Elapsed(clock) <= timeout_seconds * TicksPerSecond

\* _should_attempt_reset with > for >=
ShouldAttemptReset_Strict(clock) ==
    IF last_failure_time = None THEN TRUE
    ELSE Elapsed(clock) > timeout_seconds * TicksPerSecond

\* _should_attempt_reset, evaluated when datetime.now() = clock
ShouldAttemptReset(clock) ==
    IF last_failure_time = None THEN TRUE
    ELSE Elapsed(clock) >= timeout_seconds * TicksPerSecond

\* _get_remaining_timeout, evaluated when datetime.now() = clock
GetRemainingTimeout(clock) ==
    IF last_failure_time = None THEN 0
    ELSE Max(0, IntSeconds(timeout_seconds * TicksPerSecond - Elapsed(clock)))

\* _on_success closing only when the count exceeds half_open_attempts
OnSuccess_StrictAttempts ==
    /\ IF state = HALF_OPEN
       THEN IF half_open_success_count + 1 > half_open_attempts
            THEN /\ state' = CLOSED
                 /\ failures' = 0
                 /\ half_open_success_count' = 0
            ELSE /\ half_open_success_count' = half_open_success_count + 1
                 /\ UNCHANGED <<state, failures>>
       ELSE /\ failures' = 0
            /\ UNCHANGED <<state, half_open_success_count>>
    /\ UNCHANGED last_failure_time

\* _on_success zeroing failures in HALF_OPEN too
OnSuccess_AlwaysZero ==
    /\ IF state = HALF_OPEN
       THEN IF half_open_success_count + 1 >= half_open_attempts
            THEN /\ state' = CLOSED
                 /\ half_open_success_count' = 0
            ELSE /\ half_open_success_count' = half_open_success_count + 1
                 /\ UNCHANGED state
       ELSE UNCHANGED <<state, half_open_success_count>>
    /\ failures' = 0
    /\ UNCHANGED last_failure_time

\* _on_success leaving failures alone in CLOSED
OnSuccess_NoReset ==
    /\ IF state = HALF_OPEN
       THEN IF half_open_success_count + 1 >= half_open_attempts
            THEN /\ state' = CLOSED
                 /\ failures' = 0
                 /\ half_open_success_count' = 0
            ELSE /\ half_open_success_count' = half_open_success_count + 1
                 /\ UNCHANGED <<state, failures>>
       ELSE UNCHANGED <<state, failures, half_open_success_count>>
    /\ UNCHANGED last_failure_time

\* _on_success
OnSuccess ==
    /\ IF state = HALF_OPEN
       THEN IF half_open_success_count + 1 >= half_open_attempts
            THEN /\ state' = CLOSED
                 /\ failures' = 0
                 /\ half_open_success_count' = 0
            ELSE /\ half_open_success_count' = half_open_success_count + 1
                 /\ UNCHANGED <<state, failures>>
       ELSE /\ failures' = 0
            /\ UNCHANGED <<state, half_open_success_count>>
    /\ UNCHANGED last_failure_time

\* _on_failure opening only when failures exceeds the threshold
OnFailure_StrictThreshold(clock) ==
    /\ failures' = failures + 1
    /\ last_failure_time' = clock
    /\ state' = IF failures + 1 > failure_threshold THEN OPEN ELSE state
    /\ UNCHANGED half_open_success_count

\* _on_failure, with datetime.now() = clock
OnFailure(clock) ==
    /\ failures' = failures + 1
    /\ last_failure_time' = clock
    /\ state' = IF failures + 1 >= failure_threshold THEN OPEN ELSE state
    /\ UNCHANGED half_open_success_count

\* ------------------------------------------------------ initial conditions
BreakerFresh ==
    /\ state = CLOSED
    /\ failures = 0
    /\ last_failure_time = None
    /\ half_open_success_count = 0

SeqIdle ==
    /\ pc = "idle"
    /\ outcome = "none"
    /\ remaining_msg = None
    /\ retry_after_seconds = None
    /\ run = 0
    /\ fullRun = FALSE
    /\ allFail = TRUE
    /\ hoSucc = 0

ConcIdle ==
    /\ tpc = [t \in Threads |-> "idle"]
    /\ treg = [t \in Threads |-> 0]
    /\ tcalls = [t \in Threads |-> 0]
    /\ toutcome = [t \in Threads |-> "none"]
    /\ resets = FALSE

RetryIdle ==
    /\ attempt = 0
    /\ rpc = "loop"
    /\ calls = <<>>
    /\ last_exception = <<>>
    /\ sleeps = <<>>
    /\ result = None
    /\ cause = <<>>

FallbackIdle ==
    /\ probe = "none"
    /\ cache_key = "None"

TimeoutIdle ==
    /\ tw_timeout = 60 * TicksPerSecond
    /\ twpc = "idle"
    /\ worker = "none"
    /\ hangs = FALSE
    /\ submitted_at = None
    /\ received_at = None

\* no answer of the language model yet
NoResponse ==
    [kind |-> "none", count |-> 0, valid |-> TRUE, verbs |-> TRUE,
     objectives |-> <<>>]

ArchitectIdle ==
    /\ num_objectives = 6
    /\ backend = NoResponse
    /\ gpc = "idle"
    /\ backend_calls = 0
    /\ returned_count = None
    /\ gen_error = "none"
    /\ gen_rules = {}

\* A verb string: its letters lowercased (base), whether some letter is in
\* upper case, whether whitespace surrounds it.
Word(base) == [base |-> base, cased |-> FALSE, pad |-> FALSE]

\* str.strip() and str.lower() on a verb
StripWord(w) == [w EXCEPT !.pad = FALSE]
LowerWord(w) == [w EXCEPT !.cased = FALSE]

\* BloomLevel, two of its six members
Levels == {"Remember", "Understand"}

\* BloomsTaxonomy.VERBS as written in the class body, two verbs of each of
\* the two levels; "describe" is in both lists there as here
CanonicalVerbs ==
    [l \in Levels |->
        IF l = "Remember"
        THEN <<Word("define"), Word("describe")>>
        ELSE <<Word("explain"), Word("describe")>>]

\* A text of a quiz: what it says (id), the length n of its content without
\* surrounding whitespace, whether that content ends with '?', and the
\* number of whitespace characters after it.
Text(id, n, q, pad) == [id |-> id, n |-> n, q |-> q, pad |-> pad]

\* len(s), s.strip(), s.endswith('?'), `not s`
StrLen(t) == t.n + t.pad
StripText(t) == [t EXCEPT !.pad = 0]
EndsWithQuestionMark(t) == t.pad = 0 /\ t.q
Falsy(t) == StrLen(t) = 0

NoQuiz ==
    [stem |-> Text("", 0, FALSE, 0), correct_answer |-> Text("", 0, FALSE, 0),
     distractors |-> <<>>, explanation |-> Text("", 0, FALSE, 0)]

\* no answer of the language model yet
NoQuizResponse == [kind |-> "none", quiz |-> NoQuiz]

QuizIdle ==
    /\ qpc = "idle"
    /\ qattempt = 0
    /\ qbackend = NoQuizResponse
    /\ qcalls = 0
    /\ qerror = "none"
    /\ qrules = {}

\* the class as loaded: each level has its own list object, named here by
\* the level; no dict obtained from get_all_verbs()
TaxonomyIdle ==
    /\ VERBS = [l \in Levels |-> l]
    /\ lists = CanonicalVerbs
    /\ copy = [l \in {} |-> ""]
    /\ has_copy = FALSE
    /\ vverb = Word("")
    /\ vlevel = ""
    /\ vresult = FALSE

NoObjective == [id |-> "", content |-> ""]

\* ObjectiveStore.__init__
StoreIdle ==
    /\ objectives = [i \in {} |-> NoObjective]
    /\ got_id = ""
    /\ got = NoObjective

HealthIdle ==
    /\ ollama_connected = FALSE
    /\ health_status = "none"
    /\ checked_state = "none"

\* no exception raised by func yet
ExcIdle == func_exc = "none" /\ call_exc = "none"

\* no domain object constructed yet
ModelIdle ==
    /\ built_cls = "none"
    /\ built_args = NoQuiz
    /\ built_result = "none"

\* no request answered yet
ApiIdle ==
    /\ http_status = None
    /\ failed_at = "none"
    /\ store_before = [i \in {} |-> NoObjective]

DomainIdle ==
    /\ QuizIdle
    /\ TaxonomyIdle
    /\ StoreIdle
    /\ HealthIdle
    /\ ExcIdle
    /\ ModelIdle
    /\ ApiIdle

LayerIdle == FallbackIdle /\ TimeoutIdle /\ ArchitectIdle /\ DomainIdle

RetryDefaults ==
    /\ max_attempts = 3
    /\ base_delay = 1
    /\ max_delay = 10
    /\ exceptions = {"Exception"}

\* CircuitBreaker.__init__ with positive arguments
Init ==
    /\ failure_threshold \in 1..MaxFailureThreshold
    /\ timeout_seconds \in 1..MaxTimeoutSeconds
    /\ half_open_attempts \in 1..MaxHalfOpenAttempts
    /\ BreakerFresh
    /\ now = 0
    /\ SeqIdle
    /\ ConcIdle
    /\ RetryDefaults
    /\ RetryIdle
    /\ LayerIdle

\* ------------------------------------------- call(), one caller at a time

\* lines 100-110 up to the decision: admit (entering HALF_OPEN when the
\* cooldown is over) or go on to compute the remaining cooldown
CallEnter ==
    /\ pc = "idle"
    /\ IF state = OPEN
       THEN IF ShouldAttemptReset(now)
            THEN /\ state' = HALF_OPEN
                 /\ half_open_success_count' = 0
                 /\ hoSucc' = 0
                 /\ pc' = "func"
            ELSE /\ pc' = "reject"
                 /\ UNCHANGED <<state, half_open_success_count, hoSucc>>
       ELSE /\ pc' = "func"
            /\ UNCHANGED <<state, half_open_success_count, hoSucc>>
    /\ remaining_msg' = None
    /\ retry_after_seconds' = None
    /\ UNCHANGED <<params, failures, last_failure_time, now, outcome,
                   run, fullRun, allFail, concVars, retryArgs, retryVars, layerVars>>

\* the rejection counted as a failure
CallReject_CountsFailure ==
    /\ pc = "reject"
    /\ remaining_msg' = GetRemainingTimeout(now)
    /\ failures' = failures + 1
    /\ outcome' = "rejected"
    /\ pc' = "idle"
    /\ UNCHANGED <<params, state, last_failure_time, half_open_success_count,
                   now, retry_after_seconds, histVars, concVars, retryArgs,
                   retryVars, layerVars>>

\* the rejection stamping last_failure_time, as if it were a failure
CallReject_RestartsCooldown ==
    /\ pc = "reject"
    /\ remaining_msg' = GetRemainingTimeout(now)
    /\ last_failure_time' = now
    /\ outcome' = "rejected"
    /\ pc' = "idle"
    /\ UNCHANGED <<params, state, failures, half_open_success_count, now,
                   retry_after_seconds, histVars, concVars, retryArgs,
                   retryVars, layerVars>>

\* lines 106-110: the second reading of the clock, then the raise
CallReject ==
    /\ pc = "reject"
    /\ remaining_msg' = GetRemainingTimeout(now)
    /\ outcome' = "rejected"
    /\ pc' = "idle"
    /\ UNCHANGED <<params, fields, now, retry_after_seconds, histVars,
                   concVars, retryArgs, retryVars, layerVars>>

\* lines 114-119: func returned
FuncReturns ==
    /\ pc = "func"
    /\ OnSuccess
    /\ outcome' = "returned"
    /\ pc' = "idle"
    /\ run' = 0
    /\ allFail' = FALSE
    /\ hoSucc' = IF state = HALF_OPEN THEN hoSucc + 1 ELSE hoSucc
    /\ UNCHANGED <<params, now, remaining_msg, retry_after_seconds, fullRun,
                   concVars, retryArgs, retryVars, layerVars>>

\* lines 121-126: func raised
FuncRaises ==
    /\ pc = "func"
    /\ OnFailure(now)
    /\ outcome' = "raised"
    /\ pc' = "idle"
    /\ run' = run + 1
    /\ fullRun' = (fullRun \/ run + 1 >= failure_threshold)
    /\ UNCHANGED <<params, now, remaining_msg, retry_after_seconds, allFail,
                   hoSucc, concVars, retryArgs, retryVars, layerVars>>

\* handle_ollama_error on the CircuitBreakerOpenError just raised
HandleOllamaError ==
    /\ pc = "idle"
    /\ outcome = "rejected"
    /\ retry_after_seconds = None
    /\ retry_after_seconds' = GetRemainingTimeout(now)
    /\ UNCHANGED <<params, fields, now, pc, outcome, remaining_msg, histVars,
                   concVars, retryArgs, retryVars, layerVars>>

\* reset() leaving last_failure_time as it is
Reset_KeepsFailureTime ==
    /\ pc = "idle"
    /\ state' = CLOSED
    /\ failures' = 0
    /\ UNCHANGED last_failure_time
    /\ half_open_success_count' = 0
    /\ outcome' = "none"
    /\ remaining_msg' = None
    /\ retry_after_seconds' = None
    /\ run' = 0
    /\ fullRun' = FALSE
    /\ allFail' = TRUE
    /\ hoSucc' = 0
    /\ resets' = TRUE
    /\ UNCHANGED <<params, now, pc, tpc, treg, tcalls, toutcome, retryArgs,
                   retryVars, layerVars>>

\* reset(), lines 173-176; resets records that it ran
Reset ==
    /\ pc = "idle"
    /\ state' = CLOSED
    /\ failures' = 0
    /\ last_failure_time' = None
    /\ half_open_success_count' = 0
    /\ outcome' = "none"
    /\ remaining_msg' = None
    /\ retry_after_seconds' = None
    /\ run' = 0
    /\ fullRun' = FALSE
    /\ allFail' = TRUE
    /\ hoSucc' = 0
    /\ resets' = TRUE
    /\ UNCHANGED <<params, now, pc, tpc, treg, tcalls, toutcome, retryArgs,
                   retryVars, layerVars>>

\* the clock advances
Tick ==
    /\ now < MaxTime
    /\ now' = now + 1
    /\ UNCHANGED <<params, fields, seqVars, histVars, concVars, retryArgs,
                   retryVars, layerVars>>

Next ==
    \/ CallEnter
    \/ CallReject
    \/ FuncReturns
    \/ FuncRaises
    \/ HandleOllamaError
    \/ Reset
    \/ Tick

Spec == Init /\ [][Next]_vars

\* ------------------------------------- call() and reset(), concurrent callers
\* The class takes no lock, so each read and each write of a field is a step
\* of its own and the steps of different threads interleave.

Goto(t, label) == tpc' = [tpc EXCEPT ![t] = label]
Finish(t, o) ==
    /\ tpc' = [tpc EXCEPT ![t] = "idle"]
    /\ toutcome' = [toutcome EXCEPT ![t] = o]
ConcFrame == UNCHANGED <<params, now, seqVars, histVars, retryArgs, retryVars, layerVars>>

\* line 100: call() begins and reads self.state
TCheckState(t) ==
    /\ tpc[t] = "idle"
    /\ tcalls[t] < MaxCallsPerThread
    /\ tcalls' = [tcalls EXCEPT ![t] = @ + 1]
    /\ toutcome' = [toutcome EXCEPT ![t] = "none"]
    /\ Goto(t, IF state = OPEN THEN "sar_none" ELSE "invoke")
    /\ UNCHANGED <<fields, treg, resets>>
    /\ ConcFrame

\* line 156: if not self.last_failure_time: return True
TResetNone(t) ==
    /\ tpc[t] = "sar_none"
    /\ Goto(t, IF last_failure_time = None THEN "set_half" ELSE "sar_elapsed")
    /\ UNCHANGED <<fields, treg, tcalls, toutcome, resets>>
    /\ ConcFrame

\* lines 159-160: the second read of last_failure_time; datetime - None
\* raises TypeError out of call()
TResetElapsed(t) ==
    /\ tpc[t] = "sar_elapsed"
    /\ IF last_failure_time = None
       THEN Finish(t, "type_error")
       ELSE /\ Goto(t, IF ShouldAttemptReset(now) THEN "set_half"
                       ELSE "grt_none")
            /\ UNCHANGED toutcome
    /\ UNCHANGED <<fields, treg, tcalls, resets>>
    /\ ConcFrame

\* line 102: self.state = CircuitState.HALF_OPEN
TSetHalfOpen(t) ==
    /\ tpc[t] = "set_half"
    /\ state' = HALF_OPEN
    /\ Goto(t, "zero_count")
    /\ UNCHANGED <<failures, last_failure_time, half_open_success_count,
                   treg, tcalls, toutcome, resets>>
    /\ ConcFrame

\* line 103: self.half_open_success_count = 0
TZeroCount(t) ==
    /\ tpc[t] = "zero_count"
    /\ half_open_success_count' = 0
    /\ Goto(t, "invoke")
    /\ UNCHANGED <<state, failures, last_failure_time, treg, tcalls,
                   toutcome, resets>>
    /\ ConcFrame

\* line 164: if not self.last_failure_time: return 0, then the raise
TRemainingNone(t) ==
    /\ tpc[t] = "grt_none"
    /\ IF last_failure_time = None
       THEN Finish(t, "rejected")
       ELSE Goto(t, "grt_elapsed") /\ UNCHANGED toutcome
    /\ UNCHANGED <<fields, treg, tcalls, resets>>
    /\ ConcFrame

\* lines 167-169 and 107-110: the second read, then the raise
TRemainingElapsed(t) ==
    /\ tpc[t] = "grt_elapsed"
    /\ Finish(t, IF last_failure_time = None THEN "type_error"
                 ELSE "rejected")
    /\ UNCHANGED <<fields, treg, tcalls, resets>>
    /\ ConcFrame

\* line 114: the gate is behind, func(*args, **kwargs) is called
TInvoke(t) ==
    /\ tpc[t] = "invoke"
    /\ Goto(t, "func")
    /\ UNCHANGED <<fields, treg, tcalls, toutcome, resets>>
    /\ ConcFrame

\* line 114, func returns; line 117 enters _on_success
TFuncReturns(t) ==
    /\ tpc[t] = "func"
    /\ Goto(t, "os_state")
    /\ UNCHANGED <<fields, treg, tcalls, toutcome, resets>>
    /\ ConcFrame

\* line 114, func raises; line 123 enters _on_failure
TFuncRaises(t) ==
    /\ tpc[t] = "func"
    /\ Goto(t, "of_read")
    /\ UNCHANGED <<fields, treg, tcalls, toutcome, resets>>
    /\ ConcFrame

\* line 130: if self.state == CircuitState.HALF_OPEN
TSuccessState(t) ==
    /\ tpc[t] = "os_state"
    /\ Goto(t, IF state = HALF_OPEN THEN "os_read" ELSE "os_zero")
    /\ UNCHANGED <<fields, treg, tcalls, toutcome, resets>>
    /\ ConcFrame

\* line 141: self.failures = 0
TSuccessZero(t) ==
    /\ tpc[t] = "os_zero"
    /\ failures' = 0
    /\ Finish(t, "returned")
    /\ UNCHANGED <<state, last_failure_time, half_open_success_count, treg,
                   tcalls, resets>>
    /\ ConcFrame

\* line 131, the read of self.half_open_success_count += 1
TSuccessRead(t) ==
    /\ tpc[t] = "os_read"
    /\ treg' = [treg EXCEPT ![t] = half_open_success_count]
    /\ Goto(t, "os_write")
    /\ UNCHANGED <<fields, tcalls, toutcome, resets>>
    /\ ConcFrame

\* line 131, the write of self.half_open_success_count += 1
TSuccessWrite(t) ==
    /\ tpc[t] = "os_write"
    /\ half_open_success_count' = treg[t] + 1
    /\ Goto(t, "os_check")
    /\ UNCHANGED <<state, failures, last_failure_time, treg, tcalls,
                   toutcome, resets>>
    /\ ConcFrame

\* line 134: if self.half_open_success_count >= self.half_open_attempts
TSuccessCheck(t) ==
    /\ tpc[t] = "os_check"
    /\ IF half_open_success_count >= half_open_attempts
       THEN Goto(t, "os_close") /\ UNCHANGED toutcome
       ELSE Finish(t, "returned")
    /\ UNCHANGED <<fields, treg, tcalls, resets>>
    /\ ConcFrame

\* line 135: self.state = CircuitState.CLOSED
TCloseState(t) ==
    /\ tpc[t] = "os_close"
    /\ state' = CLOSED
    /\ Goto(t, "os_close_failures")
    /\ UNCHANGED <<failures, last_failure_time, half_open_success_count,
                   treg, tcalls, toutcome, resets>>
    /\ ConcFrame

\* line 136: self.failures = 0
TCloseFailures(t) ==
    /\ tpc[t] = "os_close_failures"
    /\ failures' = 0
    /\ Goto(t, "os_close_count")
    /\ UNCHANGED <<state, last_failure_time, half_open_success_count, treg,
                   tcalls, toutcome, resets>>
    /\ ConcFrame

\* line 137: self.half_open_success_count = 0
TCloseCount(t) ==
    /\ tpc[t] = "os_close_count"
    /\ half_open_success_count' = 0
    /\ Finish(t, "returned")
    /\ UNCHANGED <<state, failures, last_failure_time, treg, tcalls, resets>>
    /\ ConcFrame

\* line 145, the read of self.failures += 1
TFailureRead(t) ==
    /\ tpc[t] = "of_read"
    /\ treg' = [treg EXCEPT ![t] = failures]
    /\ Goto(t, "of_write")
    /\ UNCHANGED <<fields, tcalls, toutcome, resets>>
    /\ ConcFrame

\* line 145, the write of self.failures += 1
TFailureWrite(t) ==
    /\ tpc[t] = "of_write"
    /\ failures' = treg[t] + 1
    /\ Goto(t, "of_time")
    /\ UNCHANGED <<state, last_failure_time, half_open_success_count, treg,
                   tcalls, toutcome, resets>>
    /\ ConcFrame

\* line 146: self.last_failure_time = datetime.now()
TFailureTime(t) ==
    /\ tpc[t] = "of_time"
    /\ last_failure_time' = now
    /\ Goto(t, "of_check")
    /\ UNCHANGED <<state, failures, half_open_success_count, treg, tcalls,
                   toutcome, resets>>
    /\ ConcFrame

\* line 148: if self.failures >= self.failure_threshold
TFailureCheck(t) ==
    /\ tpc[t] = "of_check"
    /\ IF failures >= failure_threshold
       THEN Goto(t, "of_open") /\ UNCHANGED toutcome
       ELSE Finish(t, "raised")
    /\ UNCHANGED <<fields, treg, tcalls, resets>>
    /\ ConcFrame

\* line 149: self.state = CircuitState.OPEN, then the re-raise of line 126
TFailureOpen(t) ==
    /\ tpc[t] = "of_open"
    /\ state' = OPEN
    /\ Finish(t, "raised")
    /\ UNCHANGED <<failures, last_failure_time, half_open_success_count,
                   treg, tcalls, resets>>
    /\ ConcFrame

\* line 173: reset() begins, self.state = CircuitState.CLOSED
TResetState(t) ==
    /\ tpc[t] = "idle"
    /\ tcalls[t] < MaxCallsPerThread
    /\ tcalls' = [tcalls EXCEPT ![t] = @ + 1]
    /\ resets' = TRUE
    /\ state' = CLOSED
    /\ Goto(t, "rs_failures")
    /\ toutcome' = [toutcome EXCEPT ![t] = "none"]
    /\ UNCHANGED <<failures, last_failure_time, half_open_success_count,
                   treg>>
    /\ ConcFrame

\* line 174: self.failures = 0
TResetFailures(t) ==
    /\ tpc[t] = "rs_failures"
    /\ failures' = 0
    /\ Goto(t, "rs_time")
    /\ UNCHANGED <<state, last_failure_time, half_open_success_count, treg,
                   tcalls, toutcome, resets>>
    /\ ConcFrame

\* line 175: self.last_failure_time = None
TResetTime(t) ==
    /\ tpc[t] = "rs_time"
    /\ last_failure_time' = None
    /\ Goto(t, "rs_count")
    /\ UNCHANGED <<state, failures, half_open_success_count, treg, tcalls,
                   toutcome, resets>>
    /\ ConcFrame

\* line 176: self.half_open_success_count = 0
TResetCount(t) ==
    /\ tpc[t] = "rs_count"
    /\ half_open_success_count' = 0
    /\ Finish(t, "reset")
    /\ UNCHANGED <<state, failures, last_failure_time, treg, tcalls, resets>>
    /\ ConcFrame

NextConc ==
    \/ \E t \in Threads : TCheckState(t)
    \/ \E t \in Threads : TResetNone(t)
    \/ \E t \in Threads : TResetElapsed(t)
    \/ \E t \in Threads : TSetHalfOpen(t)
    \/ \E t \in Threads : TZeroCount(t)
    \/ \E t \in Threads : TRemainingNone(t)
    \/ \E t \in Threads : TRemainingElapsed(t)
    \/ \E t \in Threads : TInvoke(t)
    \/ \E t \in Threads : TFuncReturns(t)
    \/ \E t \in Threads : TFuncRaises(t)
    \/ \E t \in Threads : TSuccessState(t)
    \/ \E t \in Threads : TSuccessZero(t)
    \/ \E t \in Threads : TSuccessRead(t)
    \/ \E t \in Threads : TSuccessWrite(t)
    \/ \E t \in Threads : TSuccessCheck(t)
    \/ \E t \in Threads : TCloseState(t)
    \/ \E t \in Threads : TCloseFailures(t)
    \/ \E t \in Threads : TCloseCount(t)
    \/ \E t \in Threads : TFailureRead(t)
    \/ \E t \in Threads : TFailureWrite(t)
    \/ \E t \in Threads : TFailureTime(t)
    \/ \E t \in Threads : TFailureCheck(t)
    \/ \E t \in Threads : TFailureOpen(t)
    \/ \E t \in Threads : TResetState(t)
    \/ \E t \in Threads : TResetFailures(t)
    \/ \E t \in Threads : TResetTime(t)
    \/ \E t \in Threads : TResetCount(t)
    \/ Tick

SpecConc == Init /\ [][NextConc]_vars

\* ------------------------------------------ retry_with_exponential_backoff

\* what one invocation of func can raise: an Exception subclass of the
\* caller's, GenerationTimeoutError(Exception), or a BaseException that is
\* no Exception
Kinds == {"ValueError", "GenerationTimeoutError", "KeyboardInterrupt"}

\* isinstance(e, cls)
IsInstance(kind, cls) ==
    \/ cls = kind
    \/ cls = "Exception" /\ kind \in {"ValueError", "GenerationTimeoutError"}

\* except exceptions as e
Caught(kind) == \E cls \in exceptions : IsInstance(kind, cls)

\* range(max_attempts) running one index too far
InRange_OffByOne(a) == a <= max_attempts

\* for attempt in range(max_attempts)
InRange(a) == a < max_attempts

\* the delay without the cap of max_delay
Delay_NoCap(a) == base_delay * (2 ^ a)

\* delay = min(base_delay * (2 ** attempt), max_delay)
Delay(a) == Min(base_delay * (2 ^ a), max_delay)

\* the global breaker of the module, untouched by the wrapper
BreakerDefaults ==
    /\ failure_threshold = 5
    /\ timeout_seconds = 60
    /\ half_open_attempts = 3

\* the wrapper is called with some arguments of the decorator
InitRetry ==
    /\ max_attempts \in 0..MaxAttempts
    /\ base_delay \in 1..MaxBaseDelay
    /\ max_delay \in 1..MaxMaxDelay
    /\ exceptions \in {{"Exception"}, {"ValueError"}}
    /\ RetryIdle
    /\ BreakerDefaults
    /\ BreakerFresh
    /\ now = 0
    /\ SeqIdle
    /\ ConcIdle
    /\ LayerIdle

RetryFrame ==
    UNCHANGED <<params, fields, now, seqVars, histVars, concVars, retryArgs,
                layerVars>>

\* the result of func kept without returning, so that the loop goes on
RetryReturns_NoReturn ==
    /\ rpc = "loop"
    /\ InRange(attempt)
    /\ calls' = Append(calls, "ok")
    /\ result' = Len(calls) + 1
    /\ attempt' = attempt + 1
    /\ UNCHANGED <<rpc, last_exception, sleeps, cause>>
    /\ RetryFrame

\* line 226: func returns, and the wrapper returns its value (the value of
\* the i-th invocation is written i)
RetryReturns ==
    /\ rpc = "loop"
    /\ InRange(attempt)
    /\ calls' = Append(calls, "ok")
    /\ result' = Len(calls) + 1
    /\ rpc' = "returned"
    /\ UNCHANGED <<attempt, last_exception, sleeps, cause>>
    /\ RetryFrame

\* the except clause keeping the first exception instead of the latest
RetryCatches_KeepsFirst ==
    /\ rpc = "loop"
    /\ InRange(attempt)
    /\ \E kind \in Kinds :
          /\ Caught(kind)
          /\ calls' = Append(calls, kind)
          /\ last_exception' = IF last_exception = <<>>
                               THEN <<kind, Len(calls) + 1>>
                               ELSE last_exception
    /\ sleeps' = IF attempt < max_attempts - 1
                 THEN Append(sleeps, Delay(attempt))
                 ELSE sleeps
    /\ attempt' = attempt + 1
    /\ UNCHANGED <<rpc, result, cause>>
    /\ RetryFrame

\* lines 228-244: func raises one of the configured exceptions; the wrapper
\* sleeps unless this was the last attempt, and goes round the loop
RetryCatches ==
    /\ rpc = "loop"
    /\ InRange(attempt)
    /\ \E kind \in Kinds :
          /\ Caught(kind)
          /\ calls' = Append(calls, kind)
          /\ last_exception' = <<kind, Len(calls) + 1>>
    /\ sleeps' = IF attempt < max_attempts - 1
                 THEN Append(sleeps, Delay(attempt))
                 ELSE sleeps
    /\ attempt' = attempt + 1
    /\ UNCHANGED <<rpc, result, cause>>
    /\ RetryFrame

\* an exception outside the configured classes swallowed like a configured one
RetryPropagates_Retried ==
    /\ rpc = "loop"
    /\ InRange(attempt)
    /\ \E kind \in Kinds :
          /\ ~Caught(kind)
          /\ calls' = Append(calls, kind)
          /\ last_exception' = <<kind, Len(calls) + 1>>
    /\ sleeps' = IF attempt < max_attempts - 1
                 THEN Append(sleeps, Delay(attempt))
                 ELSE sleeps
    /\ attempt' = attempt + 1
    /\ UNCHANGED <<rpc, result, cause>>
    /\ RetryFrame

\* line 226: func raises something else, which leaves the wrapper
RetryPropagates ==
    /\ rpc = "loop"
    /\ InRange(attempt)
    /\ \E kind \in Kinds :
          /\ ~Caught(kind)
          /\ calls' = Append(calls, kind)
          /\ cause' = <<kind, Len(calls) + 1>>
    /\ rpc' = "propagated"
    /\ UNCHANGED <<attempt, last_exception, sleeps, result>>
    /\ RetryFrame

\* lines 246-249: raise MaxRetriesExceededError(...) from last_exception
RetryExhausted ==
    /\ rpc = "loop"
    /\ ~InRange(attempt)
    /\ rpc' = "exhausted"
    /\ cause' = last_exception
    /\ UNCHANGED <<attempt, calls, last_exception, sleeps, result>>
    /\ RetryFrame

NextRetry ==
    \/ RetryReturns
    \/ RetryCatches
    \/ RetryPropagates
    \/ RetryExhausted

SpecRetry == InitRetry /\ [][NextRetry]_vars

\* ------------------------------------------------ properties, one caller

TimeoutTicks == timeout_seconds * TicksPerSecond

\* a step that begins a call()
CallBegins == pc = "idle" /\ pc' # "idle"
\* a step in which the admitted function returns, or raises
CallReturns == pc = "func" /\ pc' = "idle" /\ outcome' = "returned"
CallRaises == pc = "func" /\ pc' = "idle" /\ outcome' = "raised"

\* C1: from a fresh breaker, while every completed call has failed, the
\* state is CLOSED as long as fewer than failure_threshold calls failed, and
\* right after the failure_threshold-th failing call it is OPEN with
\* last_failure_time recorded.
C1_OpensAtThreshold ==
    allFail =>
        /\ (run < failure_threshold => state = CLOSED)
        /\ (run = failure_threshold /\ pc = "idle" /\ outcome = "raised"
               => state = OPEN /\ last_failure_time # None)

C1_Witness ==
    /\ allFail
    /\ failure_threshold >= 2
    /\ run = failure_threshold
    /\ pc = "idle"
    /\ outcome = "raised"
    /\ state = OPEN

\* C2: a call() begun while OPEN with less than timeout_seconds elapsed
\* since last_failure_time goes to the rejection without touching the
\* breaker, and the rejection ends the call with CircuitBreakerOpenError:
\* the function is never entered.
C2_OpenRejects ==
    [][ /\ (CallBegins /\ state = OPEN /\ last_failure_time # None
                /\ Elapsed(now) < TimeoutTicks)
            => (pc' = "reject" /\ UNCHANGED fields)
        /\ (pc = "reject" /\ pc' # "reject")
            => (pc' = "idle" /\ outcome' = "rejected" /\ UNCHANGED fields)
      ]_vars

C2_Witness ==
    /\ pc = "idle"
    /\ outcome = "rejected"
    /\ state = OPEN
    /\ last_failure_time # None
    /\ Elapsed(now) < TimeoutTicks

\* C3: the passing of time alone never changes the state; OPEN is left for
\* HALF_OPEN only by a call() that begins when the cooldown is over; and
\* such a call sets HALF_OPEN with half_open_success_count = 0 and enters
\* the function.
C3_LazyHalfOpen ==
    [][ /\ (now' # now => state' = state)
        /\ (state = OPEN /\ state' = HALF_OPEN)
            => (CallBegins /\ ShouldAttemptReset(now))
        /\ (CallBegins /\ state = OPEN /\ last_failure_time # None
                /\ Elapsed(now) >= TimeoutTicks)
            => (state' = HALF_OPEN /\ half_open_success_count' = 0
                    /\ pc' = "func")
      ]_vars

C3_Witness ==
    /\ pc = "func"
    /\ state = HALF_OPEN
    /\ half_open_success_count = 0
    /\ hoSucc = 0
    /\ last_failure_time # None
    /\ Elapsed(now) >= TimeoutTicks

\* C4: a call that returns in HALF_OPEN closes the breaker exactly when it
\* is the half_open_attempts-th success since HALF_OPEN was entered, and
\* then failures and half_open_success_count are 0; with fewer successes the
\* state stays HALF_OPEN; and HALF_OPEN never holds half_open_attempts
\* successes.
C4_ClosesAfterAttempts ==
    /\ [](state = HALF_OPEN =>
            hoSucc < half_open_attempts /\ half_open_success_count = hoSucc)
    /\ [][ /\ (CallReturns /\ state = HALF_OPEN) =>
                IF hoSucc' = half_open_attempts
                THEN state' = CLOSED /\ failures' = 0
                        /\ half_open_success_count' = 0
                ELSE state' = HALF_OPEN /\ hoSucc' < half_open_attempts
           /\ (state = HALF_OPEN /\ state' = CLOSED /\ outcome' # "none")
                => (CallReturns /\ hoSucc' = half_open_attempts)
         ]_vars

C4_Witness ==
    /\ pc = "idle"
    /\ outcome = "returned"
    /\ state = CLOSED
    /\ half_open_attempts >= 2
    /\ hoSucc = half_open_attempts
    /\ failures = 0
    /\ last_failure_time # None

\* C5: a call that raises while the breaker is HALF_OPEN leaves it OPEN with
\* last_failure_time set to the time of that failure.
C5_HalfOpenFailureReopens ==
    [][ (CallRaises /\ state = HALF_OPEN)
            => (state' = OPEN /\ last_failure_time' = now') ]_vars

C5_Witness ==
    /\ pc = "idle"
    /\ outcome = "raised"
    /\ state = OPEN
    /\ failures > failure_threshold
    /\ hoSucc >= 1
    /\ last_failure_time = now

\* C6: as long as no run of failure_threshold failures without a success in
\* between has occurred since the breaker was fresh, the state is CLOSED and
\* failures is the length of the current run (0 right after a success).
C6_OnlyConsecutiveFailuresOpen ==
    ~fullRun => (state = CLOSED /\ failures = run)

C6_Witness ==
    /\ ~fullRun
    /\ ~allFail
    /\ failure_threshold >= 2
    /\ run = failure_threshold - 1
    /\ pc = "idle"
    /\ outcome = "raised"
    /\ state = CLOSED

\* C8: every rejected call reports a remaining cooldown greater than 0, in
\* the message of CircuitBreakerOpenError and in retry_after_seconds.
C8_RemainingPositive ==
    (pc = "idle" /\ outcome = "rejected") =>
        /\ remaining_msg > 0
        /\ (retry_after_seconds # None => retry_after_seconds > 0)

\* the rejection of C8 computed within the cooldown window
C8_Witness ==
    /\ pc = "idle"
    /\ outcome = "rejected"
    /\ state = OPEN
    /\ Elapsed(now) < TimeoutTicks
    /\ remaining_msg = 0

\* --------------------------------------------- properties, concurrent callers

\* every thread has made exactly one call(), each was admitted and its
\* function raised, and reset() never ran
AllCallsFailed ==
    /\ ~resets
    /\ \A t \in Threads :
          tpc[t] = "idle" /\ tcalls[t] = 1 /\ toutcome[t] = "raised"

\* C7: when NumThreads concurrent calls on a fresh breaker have all failed,
\* failures = NumThreads, and the state is OPEN if NumThreads has reached
\* failure_threshold.
C7_NoLostFailure ==
    AllCallsFailed =>
        /\ failures = NumThreads
        /\ (NumThreads >= failure_threshold => state = OPEN)

\* the calls of C7 have all failed and an increment is lost
C7_Witness ==
    /\ AllCallsFailed
    /\ failures < NumThreads

\* ------------------------------------------------ properties, retry wrapper

Invocations == Len(calls)
AllCaught == \A i \in 1..Len(calls) : calls[i] # "ok" /\ Caught(calls[i])

\* C9: func is invoked at most max_attempts times; MaxRetriesExceededError
\* is raised only after max_attempts invocations that all raised a
\* configured exception; and once max_attempts invocations have all raised
\* one, the wrapper has raised MaxRetriesExceededError or does so next,
\* invoking nothing more.
C9_BoundedAttempts ==
    /\ Invocations <= max_attempts
    /\ rpc = "exhausted" => (Invocations = max_attempts /\ AllCaught)
    /\ (AllCaught /\ Invocations = max_attempts) =>
          \/ rpc = "exhausted"
          \/ /\ rpc = "loop"
             /\ ENABLED RetryExhausted
             /\ ~ENABLED (RetryReturns \/ RetryCatches \/ RetryPropagates)

C9_Witness ==
    /\ rpc = "exhausted"
    /\ max_attempts >= 2
    /\ Invocations = max_attempts
    /\ AllCaught

\* C10: an invocation of func that returns is the last one, every earlier
\* one raised, and the wrapper has returned the value of that invocation.
C10_ReturnsFirstSuccess ==
    \A k \in 1..Len(calls) :
        calls[k] = "ok" =>
            /\ k = Len(calls)
            /\ k <= max_attempts
            /\ \A i \in 1..(k - 1) : calls[i] # "ok"
            /\ rpc = "returned"
            /\ result = k

C10_Witness ==
    /\ rpc = "returned"
    /\ Len(calls) >= 2
    /\ calls[Len(calls)] = "ok"
    /\ result = Len(calls)

\* the invocations of func that raised
Raised == {k \in 1..Len(calls) : calls[k] # "ok"}

\* C11: the i-th sleep of a call of the wrapper (i = 1, 2, ...), which follows
\* the failed attempt of index i - 1, lasts min(base_delay * 2^(i-1),
\* max_delay); the sleeps never exceed max_delay and never decrease; and there
\* is one sleep after every failed attempt but the max_attempts-th.
C11_BackoffDelays ==
    /\ \A i \in 1..Len(sleeps) :
          /\ sleeps[i] = Min(base_delay * (2 ^ (i - 1)), max_delay)
          /\ sleeps[i] <= max_delay
          /\ i > 1 => sleeps[i] >= sleeps[i - 1]
    /\ rpc \in {"loop", "exhausted"} =>
          Len(sleeps) = Min(Cardinality(Raised), Max(max_attempts - 1, 0))

C11_Witness ==
    /\ rpc = "exhausted"
    /\ Len(sleeps) >= 2
    /\ sleeps[1] < sleeps[2]
    /\ sleeps[2] = max_delay
    /\ base_delay * 2 > max_delay

\* C12: an invocation that raises an exception outside the configured classes
\* is the last one; the wrapper has let that very exception out, slept only
\* after the failed attempts before it, and has not raised
\* MaxRetriesExceededError.
C12_OtherExceptionsPropagate ==
    \A k \in 1..Len(calls) :
        (calls[k] # "ok" /\ ~Caught(calls[k])) =>
            /\ k = Len(calls)
            /\ rpc = "propagated"
            /\ cause = <<calls[k], k>>
            /\ Len(sleeps) = k - 1

C12_Witness ==
    /\ rpc = "propagated"
    /\ Len(calls) >= 2
    /\ exceptions = {"ValueError"}
    /\ calls[1] = "ValueError"
    /\ calls[Len(calls)] = "GenerationTimeoutError"
    /\ Len(sleeps) = Len(calls) - 1

\* C13: when MaxRetriesExceededError is raised after at least one attempt, its
\* cause is the exception raised by the last invocation of func.
C13_CauseIsLastException ==
    (rpc = "exhausted" /\ Len(calls) > 0) =>
        cause = <<calls[Len(calls)], Len(calls)>>

C13_Witness ==
    /\ rpc = "exhausted"
    /\ Len(calls) >= 2
    /\ calls[1] # calls[Len(calls)]
    /\ cause = <<calls[Len(calls)], Len(calls)>>

\* C14: an invocation that raises GenerationTimeoutError is the last one, and
\* the wrapper has let that exception out to its caller.
C14_TimeoutNotRetried ==
    \A k \in 1..Len(calls) :
        calls[k] = "GenerationTimeoutError" =>
            /\ k = Len(calls)
            /\ rpc = "propagated"
            /\ cause = <<calls[k], k>>

\* an attempt that raised GenerationTimeoutError was followed by another
C14_Witness ==
    /\ Len(calls) >= 2
    /\ calls[1] = "GenerationTimeoutError"
    /\ Len(sleeps) >= 1

\* ------------------------------------------------------ timeout_wrapper
\* One caller of wrapper (lines 275-296) and the single worker thread of its
\* ThreadPoolExecutor. twpc is the caller's position:
\*   "idle"      not in the wrapper
\*   "waiting"   in future.result(timeout=timeout_seconds), line 284
\*   "shutdown"  TimeoutError handled, GenerationTimeoutError in flight, in
\*               the __exit__ of the with statement of line 280, which is
\*               executor.shutdown(wait=True) and joins the worker thread
\*   "returned", "raised", "timed_out"   out of the wrapper with func's
\*               value, func's exception or GenerationTimeoutError

TwFrame ==
    UNCHANGED <<params, fields, seqVars, histVars, concVars, retryArgs,
                retryVars, fbVars, genVars, domainVars>>

\* the wrapper is applied with some timeout_seconds
InitTimeout ==
    /\ tw_timeout \in 1..MaxTimeoutTicks
    /\ twpc = "idle"
    /\ worker = "none"
    /\ hangs = FALSE
    /\ submitted_at = None
    /\ received_at = None
    /\ BreakerDefaults
    /\ BreakerFresh
    /\ now = 0
    /\ SeqIdle
    /\ ConcIdle
    /\ RetryDefaults
    /\ RetryIdle
    /\ FallbackIdle
    /\ ArchitectIdle
    /\ DomainIdle

\* the instant at which future.result gives up
Deadline == submitted_at + tw_timeout

\* lines 280-281: the executor is created and func submitted to its worker;
\* whether this run of func ever finishes is func's own affair
TwSubmit ==
    /\ twpc \notin {"waiting", "shutdown"}
    /\ twpc' = "waiting"
    /\ worker' = "running"
    /\ hangs' \in BOOLEAN
    /\ submitted_at' = now
    /\ received_at' = None
    /\ UNCHANGED <<tw_timeout, now>>
    /\ TwFrame

\* func returns in the worker thread
TwWorkerReturns ==
    /\ worker = "running"
    /\ ~hangs
    /\ worker' = "returned"
    /\ UNCHANGED <<tw_timeout, twpc, hangs, submitted_at, received_at, now>>
    /\ TwFrame

\* func raises in the worker thread
TwWorkerRaises ==
    /\ worker = "running"
    /\ ~hangs
    /\ worker' = "raised"
    /\ UNCHANGED <<tw_timeout, twpc, hangs, submitted_at, received_at, now>>
    /\ TwFrame

\* line 284: the future is done, future.result hands over func's value or
\* re-raises func's exception; the shutdown of __exit__ has nothing to wait
\* for
TwResult ==
    /\ twpc = "waiting"
    /\ worker \in {"returned", "raised"}
    /\ twpc' = worker
    /\ received_at' = now
    /\ UNCHANGED <<tw_timeout, worker, hangs, submitted_at, now>>
    /\ TwFrame

\* lines 286-296: timeout_seconds have passed and the future is not done;
\* future.cancel() does nothing to a running future, GenerationTimeoutError
\* is raised inside the with block and control enters __exit__
TwTimeout ==
    /\ twpc = "waiting"
    /\ worker = "running"
    /\ now >= Deadline
    /\ twpc' = "shutdown"
    /\ UNCHANGED <<tw_timeout, worker, hangs, submitted_at, received_at, now>>
    /\ TwFrame

\* line 280, __exit__: shutdown(wait=True) returns once the worker thread
\* has finished func, and only then does GenerationTimeoutError reach the
\* caller
TwShutdownDone ==
    /\ twpc = "shutdown"
    /\ worker # "running"
    /\ twpc' = "timed_out"
    /\ received_at' = now
    /\ UNCHANGED <<tw_timeout, worker, hangs, submitted_at, now>>
    /\ TwFrame

\* a step of the caller is due now
CallerDue ==
    \/ twpc = "waiting" /\ (worker # "running" \/ now >= Deadline)
    \/ twpc = "shutdown" /\ worker # "running"

\* time passes; the caller's thread is never late
TwTick ==
    /\ now < MaxTime
    /\ ~CallerDue
    /\ now' = now + 1
    /\ UNCHANGED twVars
    /\ TwFrame

NextTimeout ==
    \/ TwSubmit
    \/ TwWorkerReturns
    \/ TwWorkerRaises
    \/ TwResult
    \/ TwTimeout
    \/ TwShutdownDone
    \/ TwTick

SpecTimeout == InitTimeout /\ [][NextTimeout]_vars

\* C15: the caller of timeout_wrapper is never inside the wrapper after the
\* deadline submitted_at + timeout_seconds, and when it receives
\* GenerationTimeoutError it receives it at the deadline.
C15_CallerFreeAtDeadline ==
    /\ twpc \in {"waiting", "shutdown"} => now <= Deadline
    /\ twpc = "timed_out" => received_at = Deadline

\* func never returns and the caller is still in the wrapper after the deadline
C15_Witness ==
    /\ twpc = "shutdown"
    /\ hangs
    /\ worker = "running"
    /\ now > Deadline

\* -------------------------------------------------- generate_with_fallback
\* One request at a time against the breaker. pc = "probed" is the point
\* between check_ollama_health() returning True (line 617) and the entry of
\* breaker.call (line 636); outcome "unavailable" is OllamaUnavailableError
\* and "cached" the return of a cached result.

\* the values of the cache_key argument: None, the empty string, a key
CacheKeys == {"None", "", "topic"}

\* `if cache_key:` (line 621)
Truthy(key) == key \notin {"None", ""}

\* get_cached_result (lines 572-587): no cache is implemented
GetCachedResult(key) == None

FbFrame ==
    UNCHANGED <<params, now, concVars, retryArgs, retryVars, twVars, genVars,
                domainVars>>

\* the breaker is the global one or one with smaller parameters
InitFallback ==
    /\ \/ BreakerDefaults
       \/ /\ failure_threshold \in 1..MaxFailureThreshold
          /\ timeout_seconds \in 1..MaxTimeoutSeconds
          /\ half_open_attempts \in 1..MaxHalfOpenAttempts
    /\ BreakerFresh
    /\ now = 0
    /\ SeqIdle
    /\ ConcIdle
    /\ RetryDefaults
    /\ RetryIdle
    /\ LayerIdle

\* a failed probe counted by the breaker as a failure
FbProbeFails_CountsFailure ==
    /\ pc = "idle"
    /\ probe' = "unhealthy"
    /\ cache_key' \in CacheKeys
    /\ OnFailure(now)
    /\ outcome' = "unavailable"
    /\ UNCHANGED <<pc, remaining_msg, retry_after_seconds, histVars>>
    /\ FbFrame

\* lines 617-633: check_ollama_health() is False; the cache is consulted
\* when cache_key is truthy, and without a cached result
\* OllamaUnavailableError is raised
FbProbeFails ==
    /\ pc = "idle"
    /\ probe' = "unhealthy"
    /\ cache_key' \in CacheKeys
    /\ outcome' = IF Truthy(cache_key') /\ GetCachedResult(cache_key') # None
                  THEN "cached"
                  ELSE "unavailable"
    /\ UNCHANGED <<fields, pc, remaining_msg, retry_after_seconds, histVars>>
    /\ FbFrame

\* line 617: check_ollama_health() is True
FbProbeHealthy ==
    /\ pc = "idle"
    /\ probe' = "healthy"
    /\ cache_key' \in CacheKeys
    /\ pc' = "probed"
    /\ UNCHANGED <<fields, outcome, remaining_msg, retry_after_seconds,
                   histVars>>
    /\ FbFrame

\* the gate of breaker.call admitting whatever the state
FbCall_IgnoresOpen ==
    /\ pc = "probed"
    /\ pc' = "func"
    /\ remaining_msg' = None
    /\ retry_after_seconds' = None
    /\ UNCHANGED <<fields, outcome, run, fullRun, allFail, hoSucc, fbVars>>
    /\ FbFrame

\* line 636, breaker.call up to the decision of lines 100-110
FbCall ==
    /\ pc = "probed"
    /\ IF state = OPEN
       THEN IF ShouldAttemptReset(now)
            THEN /\ state' = HALF_OPEN
                 /\ half_open_success_count' = 0
                 /\ hoSucc' = 0
                 /\ pc' = "func"
            ELSE /\ pc' = "reject"
                 /\ UNCHANGED <<state, half_open_success_count, hoSucc>>
       ELSE /\ pc' = "func"
            /\ UNCHANGED <<state, half_open_success_count, hoSucc>>
    /\ remaining_msg' = None
    /\ retry_after_seconds' = None
    /\ UNCHANGED <<failures, last_failure_time, outcome, run, fullRun,
                   allFail, fbVars>>
    /\ FbFrame

NextFallback ==
    \/ FbProbeFails
    \/ FbProbeHealthy
    \/ FbCall
    \/ CallReject
    \/ FuncReturns
    \/ FuncRaises
    \/ Tick

SpecFallback == InitFallback /\ [][NextFallback]_vars

\* C16: a step in which the probe fails and OllamaUnavailableError is raised
\* leaves state, failures, last_failure_time and half_open_success_count
\* unchanged and does not reach generate_func, whatever cache_key is; and
\* every failed probe ends in OllamaUnavailableError, no cached result
\* existing.
C16_ProbeFailureLeavesBreaker ==
    [][(pc = "idle" /\ probe' = "unhealthy") =>
          /\ outcome' = "unavailable"
          /\ pc' = "idle"
          /\ UNCHANGED fields]_vars

C16_Witness ==
    /\ probe = "unhealthy"
    /\ outcome = "unavailable"
    /\ cache_key = "topic"
    /\ state = OPEN
    /\ failures > 0
    /\ last_failure_time # None

\* C17: generate_func and the gate are entered only from a healthy probe,
\* and generate_func only when the gate admits the call (the breaker is not
\* OPEN, or its cooldown is over when the gate is evaluated); after a failed
\* probe the request has ended with OllamaUnavailableError whatever the
\* breaker's state; after a healthy probe an OPEN breaker inside its cooldown
\* ends the request with CircuitBreakerOpenError.
C17_ProbeGateFunc ==
    [][/\ (pc' \in {"func", "reject"} /\ pc' # pc) =>
              (pc = "probed" /\ probe = "healthy")
       /\ (pc' = "func" /\ pc' # pc) =>
              (state # OPEN \/ ShouldAttemptReset(now))
       /\ (pc = "idle" /\ pc' # pc) => (pc' = "probed" /\ probe' = "healthy")
       /\ probe' = "unhealthy" => (pc' = "idle" /\ outcome' = "unavailable")
       /\ (pc = "probed" /\ pc' # pc /\ state = OPEN
              /\ ~ShouldAttemptReset(now)) => pc' = "reject"
       /\ (pc = "reject" /\ pc' # pc) =>
              (pc' = "idle" /\ outcome' = "rejected" /\ UNCHANGED fields)]_vars

\* a request with a healthy probe was rejected by the OPEN breaker
C17_Witness ==
    /\ pc = "idle"
    /\ probe = "healthy"
    /\ outcome = "rejected"
    /\ state = OPEN
    /\ remaining_msg # None

\* ------------------------------------------------------------- Architect
\* generate_objectives -> forward -> _generate_once, with the language model
\* behind super().forward. gpc: "idle", "backend" (in super().forward),
\* "returned", "raised"; gen_error names the exception that left
\* generate_objectives.

\* cls.VERBS.get(level, [])
ApprovedVerbs(level) ==
    IF level \in DOMAIN VERBS THEN lists[VERBS[level]] ELSE <<>>

\* validate_verb comparing the verb as given, neither trimmed nor lowercased
ValidateVerb_AsGiven(verb, level) ==
    \E i \in 1..Len(ApprovedVerbs(level)) :
        LowerWord(ApprovedVerbs(level)[i]) = verb

\* BloomsTaxonomy.validate_verb (models.py 295-297)
ValidateVerb(verb, level) ==
    \E i \in 1..Len(ApprovedVerbs(level)) :
        LowerWord(ApprovedVerbs(level)[i]) = LowerWord(StripWord(verb))

\* The objectives the model may produce: an approved verb, the same verb
\* capitalised and padded, a verb of another level, and another approved one.
ObjectiveChoices ==
    {[verb |-> Word("define"), level |-> "Remember"],
     [verb |-> [base |-> "define", cased |-> TRUE, pad |-> TRUE],
      level |-> "Remember"],
     [verb |-> Word("explain"), level |-> "Remember"],
     [verb |-> Word("explain"), level |-> "Understand"]}

ObjectiveLists ==
    UNION {[1..k -> ObjectiveChoices] : k \in 0..MaxObjectives}

\* What super().forward can do (line 97): raise while parsing the model's
\* text, or return a prediction whose course_structure is a dict or a
\* CourseStructure. objectives are the objectives in it and count their
\* number; valid tells whether a dict has the fields CourseStructure
\* requires. A CourseStructure has at least one objective (models.py,
\* min_length=1).
Responses ==
    {[kind |-> "raises", count |-> 0, valid |-> TRUE, objectives |-> <<>>]}
    \cup {[kind |-> "dict", count |-> Len(o), valid |-> v, objectives |-> o] :
             o \in ObjectiveLists, v \in BOOLEAN}
    \cup {[kind |-> "object", count |-> Len(o), valid |-> TRUE,
           objectives |-> o] : o \in ObjectiveLists \ {<<>>}}

\* _validate_blooms_verbs (lines 169-179): the objectives whose verb is not
\* approved for their level
UnapprovedVerbs(r) ==
    {i \in 1..Len(r.objectives) :
        ~ValidateVerb(r.objectives[i].verb, r.objectives[i].level)}

\* _generate_once without the check of the count
GenerateOnce_NoCountCheck(r, n) ==
    IF r.kind = "raises" THEN "JSONDecodeError"
    ELSE IF r.kind = "dict" /\ (~r.valid \/ r.count = 0) THEN "ValidationError"
    ELSE IF UnapprovedVerbs(r) # {} THEN "AssertionError"
    ELSE "ok"

\* _generate_once without the call of _validate_blooms_verbs
GenerateOnce_NoVerbCheck(r, n) ==
    IF r.kind = "raises" THEN "JSONDecodeError"
    ELSE IF r.kind = "dict" /\ (~r.valid \/ r.count = 0) THEN "ValidationError"
    ELSE IF r.count # n THEN "ValueError"
    ELSE "ok"

\* _generate_once (lines 96-121) on the answer r for n objectives: "ok" when
\* the prediction is returned, else the exception raised
GenerateOnce(r, n) ==
    IF r.kind = "raises" THEN "JSONDecodeError"
    ELSE IF r.kind = "dict" /\ (~r.valid \/ r.count = 0) THEN "ValidationError"
    ELSE IF UnapprovedVerbs(r) # {} THEN "AssertionError"
    ELSE IF r.count # n THEN "ValueError"
    ELSE "ok"

\* the rules named in the message of the exception raised: the AssertionError
\* of line 184 lists every unapproved verb, the ValueError of line 116 the
\* count
ReportedRules(r, n) ==
    IF GenerateOnce(r, n) = "AssertionError"
    THEN {<<"verb", i>> : i \in UnapprovedVerbs(r)}
    ELSE IF GenerateOnce(r, n) = "ValueError"
    THEN {<<"count", 0>>}
    ELSE {}

GenFrame ==
    UNCHANGED <<params, fields, now, seqVars, histVars, concVars, retryArgs,
                retryVars, fbVars, twVars, domainVars>>

InitArchitect ==
    /\ BreakerDefaults
    /\ BreakerFresh
    /\ now = 0
    /\ SeqIdle
    /\ ConcIdle
    /\ RetryDefaults
    /\ RetryIdle
    /\ LayerIdle

\* lines 216-220, 150-154, 97: generate_objectives(topic, audience, n) goes
\* through forward and _generate_once into super().forward
GenCall ==
    /\ gpc # "backend"
    /\ num_objectives' \in 1..MaxObjectives
    /\ gpc' = "backend"
    /\ backend_calls' = 0
    /\ returned_count' = None
    /\ gen_error' = "none"
    /\ gen_rules' = {}
    /\ UNCHANGED backend
    /\ GenFrame

\* lines 97-121, 150-154, 222: super().forward answers; _generate_once
\* validates and returns or raises; forward and generate_objectives hand on
\* whatever it did
GenAnswer ==
    /\ gpc = "backend"
    /\ \E r \in Responses :
          /\ backend' = r
          /\ gen_error' = GenerateOnce(r, num_objectives)
          /\ gen_rules' = ReportedRules(r, num_objectives)
          /\ returned_count' = IF GenerateOnce(r, num_objectives) = "ok"
                               THEN r.count
                               ELSE None
          /\ gpc' = IF GenerateOnce(r, num_objectives) = "ok"
                    THEN "returned"
                    ELSE "raised"
    /\ backend_calls' = backend_calls + 1
    /\ UNCHANGED num_objectives
    /\ GenFrame

NextArchitect ==
    \/ GenCall
    \/ GenAnswer

SpecArchitect == InitArchitect /\ [][NextArchitect]_vars

\* C18: when generate_objectives has returned a CourseStructure, its number
\* of objectives is the number requested.
C18_ExactCountOrRaise ==
    gpc = "returned" =>
        /\ returned_count = num_objectives
        /\ backend.count = num_objectives
        /\ gen_error = "ok"

C18_Witness ==
    /\ gpc = "returned"
    /\ num_objectives = MaxObjectives
    /\ returned_count = MaxObjectives
    /\ backend.kind = "dict"

\* C19: when 3 objectives were requested and the model's well-formed answer
\* had 1, generate_objectives has failed only with the retries-exhausted
\* error and after exactly 3 calls of the backend.
C19_CountMismatchRetried ==
    (/\ gpc = "raised"
     /\ num_objectives = 3
     /\ GenerateOnce(backend, num_objectives) = "ValueError"
     /\ backend.count = 1) =>
        /\ gen_error = "MaxRetriesExceededError"
        /\ backend_calls = 3

\* the count mismatch left generate_objectives as ValueError after one call
C19_Witness ==
    /\ gpc = "raised"
    /\ num_objectives = 3
    /\ backend.count = 1
    /\ UnapprovedVerbs(backend) = {}
    /\ gen_error = "ValueError"
    /\ backend_calls = 1

\* C20: whenever generate_objectives has raised because of the model's
\* output, the exception is the retries-exhausted error.
C20_OnlyRetriesExhaustedEscapes ==
    gpc = "raised" => gen_error = "MaxRetriesExceededError"

\* a schema failure of the single attempt reached the caller as it was
C20_Witness ==
    /\ gpc = "raised"
    /\ gen_error = "ValidationError"
    /\ backend.kind = "dict"
    /\ backend_calls = 1

\* C24: when generate_objectives has returned a CourseStructure, validate_verb
\* accepts the verb of every objective in it for that objective's level.
C24_ReturnedVerbsApproved ==
    gpc = "returned" =>
        \A i \in 1..Len(backend.objectives) :
            ValidateVerb(backend.objectives[i].verb,
                         backend.objectives[i].level)

\* returned objectives, one with a capitalised, padded verb
C24_Witness ==
    /\ gpc = "returned"
    /\ Len(backend.objectives) >= 2
    /\ \E i \in 1..Len(backend.objectives) : backend.objectives[i].verb.cased
    /\ \E i \in 1..Len(backend.objectives) :
          backend.objectives[i].level = "Understand"

\* the domain rules a constructed CourseStructure violates for a request of
\* n objectives
ViolatedRules(r, n) ==
    {<<"verb", i>> : i \in UnapprovedVerbs(r)}
    \cup (IF r.count # n THEN {<<"count", 0>>} ELSE {})

\* C25: when generate_objectives has raised over a constructed
\* CourseStructure that violates domain rules, the error names every
\* violated rule: each unapproved verb and, if wrong, the count.
C25_AllViolationsReported ==
    (gpc = "raised" /\ gen_error \in {"AssertionError", "ValueError"}) =>
        gen_rules = ViolatedRules(backend, num_objectives)

\* an unapproved verb and a wrong count together, only the verb reported
C25_Witness ==
    /\ gpc = "raised"
    /\ gen_error = "AssertionError"
    /\ backend.count # num_objectives
    /\ UnapprovedVerbs(backend) # {}
    /\ <<"count", 0>> \notin gen_rules

\* -------------------------------------------------------------- Assessor
\* generate_quiz -> forward, with the language model behind super().forward.
\* qpc: "idle", "backend" (in super().forward), "returned", "raised"; qerror
\* names the exception that left generate_quiz.

\* max_retries of Assessor.forward
max_retries == 3

\* the elements of a list
Range(f) == {f[i] : i \in DOMAIN f}

AnswerX == Text("X", 1, FALSE, 0)
OptionY == Text("Y", 1, FALSE, 0)
OptionZ == Text("Z", 1, FALSE, 0)
OptionW == Text("W", 1, FALSE, 0)

\* stems: a good one, the same followed by whitespace, one of 9 characters
\* and a blank, one without question mark
Stems ==
    {Text("stem", 10, TRUE, 0), Text("stem", 10, TRUE, 1),
     Text("short", 9, TRUE, 1), Text("statement", 10, FALSE, 0)}

\* correct answers: "X", the empty string, a blank
CorrectAnswers == {AnswerX, Text("", 0, FALSE, 0), Text("", 0, FALSE, 1)}

\* explanations: 15 characters, or 14 and a blank
Explanations == {Text("why", 15, FALSE, 0), Text("because", 14, FALSE, 1)}

\* distractor lists: good, holding the correct answer, with a duplicate, too
\* short, too long, with an empty or a blank entry, with an entry more than
\* 200 characters longer than the correct answer
DistractorLists ==
    {<<OptionY, OptionZ, OptionW>>,
     <<AnswerX, OptionY, OptionZ>>,
     <<OptionY, OptionY, OptionZ>>,
     <<OptionY, OptionZ>>,
     <<OptionY, OptionZ, OptionW, Text("V", 1, FALSE, 0)>>,
     <<OptionY, Text("", 0, FALSE, 0), OptionZ>>,
     <<OptionY, Text("", 0, FALSE, 1), OptionZ>>,
     <<OptionY, OptionZ, Text("long", 202, FALSE, 0)>>}

Quizzes ==
    [stem : Stems, correct_answer : CorrectAnswers,
     distractors : DistractorLists, explanation : Explanations]

\* QuizQuestion without the comparison with correct_answer
SchemaOk_NoAnswerCheck(q) ==
    /\ Len(q.distractors) = 3
    /\ Cardinality(Range(q.distractors)) = 3

\* QuizQuestion (models.py 53-74): min_length=3, max_length=3 and
\* validate_distractors
SchemaOk(q) ==
    /\ Len(q.distractors) = 3
    /\ Cardinality(Range(q.distractors)) = 3
    /\ q.correct_answer \notin Range(q.distractors)

\* What super().forward can do (line 107): raise json.JSONDecodeError, raise
\* another exception, or return a prediction whose quiz_question is a dict
\* (valid: it has the fields QuizQuestion requires, as strings) or a
\* QuizQuestion, which satisfies its own validators.
QuizResponses ==
    {[kind |-> "JSONDecodeError", valid |-> TRUE, quiz |-> NoQuiz],
     [kind |-> "Exception", valid |-> TRUE, quiz |-> NoQuiz]}
    \cup {[kind |-> "dict", valid |-> v, quiz |-> q] :
             v \in BOOLEAN, q \in Quizzes}
    \cup {[kind |-> "object", valid |-> TRUE, quiz |-> q] :
             q \in {x \in Quizzes : SchemaOk(x)}}

Abs(x) == IF x < 0 THEN -x ELSE x

\* the quality check without the two rules of the stem
QualityViolations_NoStemRules(q) ==
    (IF Falsy(q.correct_answer) \/ StrLen(StripText(q.correct_answer)) < 1
     THEN {<<"answer_empty", 0>>} ELSE {})
    \cup (IF Len(q.distractors) # 3 THEN {<<"distractor_count", 0>>} ELSE {})
    \cup (IF Cardinality(Range(q.distractors)) # 3
          THEN {<<"distractor_unique", 0>>} ELSE {})
    \cup (IF q.correct_answer \in Range(q.distractors)
          THEN {<<"answer_in_distractors", 0>>} ELSE {})
    \cup {<<"distractor_empty", i>> : i \in
             {j \in 1..Len(q.distractors) :
                 Falsy(q.distractors[j])
                 \/ StrLen(StripText(q.distractors[j])) < 1}}
    \cup (IF Falsy(q.explanation) \/ StrLen(StripText(q.explanation)) < 15
          THEN {<<"explanation_short", 0>>} ELSE {})
    \cup (IF /\ ~Falsy(q.correct_answer)
             /\ \E j \in 1..Len(q.distractors) :
                   Abs(StrLen(q.correct_answer)
                       - StrLen(q.distractors[j])) > 200
          THEN {<<"distractor_length", 0>>} ELSE {})

\* _validate_question_quality (lines 169-213): the errors collected
QualityViolations(q) ==
    (IF Falsy(q.stem) \/ StrLen(StripText(q.stem)) < 10
     THEN {<<"stem_short", 0>>} ELSE {})
    \cup (IF ~EndsWithQuestionMark(StripText(q.stem))
          THEN {<<"stem_question", 0>>} ELSE {})
    \cup QualityViolations_NoStemRules(q)

\* One pass of the try block (lines 105-123) on the answer r: "ok" when the
\* prediction is returned, else the exception raised inside it. The failed
\* dspy.Assert(False, ...) of lines 218-221 leaves the quality check with
\* an exception that is no ValueError (its docstring, line 167:
\* AssertionError).
AttemptOutcome(r) ==
    IF r.kind \in {"JSONDecodeError", "Exception"} THEN r.kind
    ELSE IF r.kind = "dict" /\ (~r.valid \/ ~SchemaOk(r.quiz))
    THEN "ValidationError"
    ELSE IF QualityViolations(r.quiz) # {} THEN "AssertionError"
    ELSE "ok"

\* every exception sent to the next attempt
Retried_All(kind) == TRUE

\* the except clauses that retry: ValidationError (125), ValueError and
\* json.JSONDecodeError (135)
Retried(kind) == kind \in {"ValidationError", "JSONDecodeError"}

QuizFrame ==
    UNCHANGED <<params, fields, now, seqVars, histVars, concVars, retryArgs,
                retryVars, fbVars, twVars, genVars, taxVars, storeVars,
                healthVars, excVars, modelVars, apiVars>>

InitAssessor ==
    /\ BreakerDefaults
    /\ BreakerFresh
    /\ now = 0
    /\ SeqIdle
    /\ ConcIdle
    /\ RetryDefaults
    /\ RetryIdle
    /\ LayerIdle

\* lines 252-255, 98-107: generate_quiz(objective) enters forward, whose
\* loop starts with attempt 0 and calls super().forward
QuizCall ==
    /\ qpc # "backend"
    /\ qpc' = "backend"
    /\ qattempt' = 0
    /\ qcalls' = 0
    /\ qerror' = "none"
    /\ qrules' = {}
    /\ UNCHANGED qbackend
    /\ QuizFrame

\* lines 107-147 and 257: super().forward answers. A valid quiz is returned
\* (123, 257); a ValidationError, ValueError or JSONDecodeError sends the
\* loop to its next attempt, or on the last one raises ValueError (125-143);
\* any other exception is turned into ValueError at once (145-147), its
\* message quoted in the new one.
QuizAnswer ==
    /\ qpc = "backend"
    /\ qcalls' = qcalls + 1
    /\ \E r \in QuizResponses :
          /\ qbackend' = r
          /\ IF AttemptOutcome(r) = "ok"
             THEN /\ qpc' = "returned"
                  /\ qerror' = "ok"
                  /\ qrules' = {}
                  /\ UNCHANGED qattempt
             ELSE IF Retried(AttemptOutcome(r)) /\ qattempt < max_retries - 1
             THEN /\ qattempt' = qattempt + 1
                  /\ UNCHANGED <<qpc, qerror, qrules>>
             ELSE /\ qpc' = "raised"
                  /\ qerror' = "ValueError"
                  /\ qrules' = IF AttemptOutcome(r) = "AssertionError"
                               THEN QualityViolations(r.quiz)
                               ELSE {}
                  /\ UNCHANGED qattempt
    /\ QuizFrame

NextAssessor ==
    \/ QuizCall
    \/ QuizAnswer

SpecAssessor == InitAssessor /\ [][NextAssessor]_vars

\* a step in which super().forward answers
QuizAnswered == qpc = "backend" /\ qcalls' = qcalls + 1

\* C21: an answer whose correct_answer is among its distractors is never
\* returned: it sends forward to its next backend call while fewer than 3
\* were made, and the third such answer ends generate_quiz with ValueError
\* after exactly 3 backend calls.
C21_AnswerAmongDistractorsExhausts ==
    [][(/\ QuizAnswered
        /\ qbackend'.kind \in {"dict", "object"}
        /\ qbackend'.quiz.correct_answer \in Range(qbackend'.quiz.distractors))
       => /\ qcalls = qattempt
          /\ qpc' # "returned"
          /\ IF qcalls' < 3
             THEN qpc' = "backend" /\ qattempt' = qcalls'
             ELSE qpc' = "raised" /\ qcalls' = 3 /\ qerror' = "ValueError"]_vars

C21_Witness ==
    /\ qpc = "raised"
    /\ qcalls = 3
    /\ qerror = "ValueError"
    /\ qbackend.kind = "dict"
    /\ qbackend.valid
    /\ qbackend.quiz.correct_answer = AnswerX
    /\ qbackend.quiz.distractors = <<AnswerX, OptionY, OptionZ>>

\* C22: when a quiz that passes the schema fails the quality check and
\* fewer than 3 backend calls were made, the backend is asked again.
C22_QualityViolationRetried ==
    [][(/\ QuizAnswered
        /\ AttemptOutcome(qbackend') = "AssertionError"
        /\ qcalls' < max_retries)
       => qpc' = "backend"]_vars

\* a short stem ended generate_quiz after a single backend call
C22_Witness ==
    /\ qpc = "raised"
    /\ qcalls = 1
    /\ qbackend.kind = "dict"
    /\ qbackend.valid
    /\ SchemaOk(qbackend.quiz)
    /\ qrules = {<<"stem_short", 0>>}

\* the invariants of a quiz other than the question mark of its stem
QuizInvariants(q) ==
    /\ Len(q.distractors) = 3
    /\ \A i, j \in 1..Len(q.distractors) :
          i # j => q.distractors[i] # q.distractors[j]
    /\ \A i \in 1..Len(q.distractors) :
          /\ q.distractors[i] # q.correct_answer
          /\ StrLen(q.distractors[i]) > 0
    /\ StrLen(q.correct_answer) > 0
    /\ StrLen(q.stem) >= 10
    /\ StrLen(q.explanation) >= 15

\* C23, as stated: every quiz returned by generate_quiz has exactly 3
\* distractors, pairwise distinct, none equal to correct_answer, none empty,
\* a non-empty correct_answer, a stem of length >= 10 that ends in '?', and
\* an explanation of length >= 15.
C23_ReturnedQuizValidAsStated ==
    qpc = "returned" =>
        /\ QuizInvariants(qbackend.quiz)
        /\ EndsWithQuestionMark(qbackend.quiz.stem)

\* C23, amended: as stated, except that the stem ends in '?' once the
\* whitespace around it is trimmed.
C23_ReturnedQuizValid ==
    qpc = "returned" =>
        /\ QuizInvariants(qbackend.quiz)
        /\ EndsWithQuestionMark(StripText(qbackend.quiz.stem))

\* a returned quiz whose stem has whitespace after its question mark
C23_Witness ==
    /\ qpc = "returned"
    /\ qbackend.quiz.stem.pad > 0
    /\ qbackend.quiz.stem.q

\* C26: when generate_quiz has raised because the backend call raised
\* json.JSONDecodeError or the output failed the construction of
\* QuizQuestion with ValidationError, the exception raised has that type.
C26_SameTypeRaised ==
    (qpc = "raised"
     /\ AttemptOutcome(qbackend) \in {"JSONDecodeError", "ValidationError"})
        => qerror = AttemptOutcome(qbackend)

\* three calls raising json.JSONDecodeError ended in ValueError
C26_Witness ==
    /\ qpc = "raised"
    /\ qbackend.kind = "JSONDecodeError"
    /\ qcalls = max_retries
    /\ qerror = "ValueError"

\* --------------------------------------------------------- BloomsTaxonomy
\* validate_verb, get_all_verbs, and a caller working on the dict that
\* get_all_verbs returned. VERBS and copy are dicts from level to list
\* object; lists holds the content of each list object.

\* verbs passed to validate_verb: an approved one in lower case, capitalised,
\* or surrounded by whitespace, one of another level and an unknown one
VerbInputs ==
    {Word("define"),
     [base |-> "define", cased |-> TRUE, pad |-> FALSE],
     [base |-> "define", cased |-> FALSE, pad |-> TRUE],
     [base |-> "explain", cased |-> TRUE, pad |-> TRUE],
     Word("zap"),
     [base |-> "zap", cased |-> TRUE, pad |-> TRUE]}

\* levels passed to validate_verb: the known ones, one in the wrong case, one
\* that is no level
LevelInputs == Levels \cup {"remember", "Custom"}

\* list.remove(x): the list without the first occurrence of x
RECURSIVE RemoveFirst(_, _)
RemoveFirst(seq, x) ==
    IF seq = <<>> THEN <<>>
    ELSE IF Head(seq) = x THEN Tail(seq)
    ELSE <<Head(seq)>> \o RemoveFirst(Tail(seq), x)

TaxFrame ==
    UNCHANGED <<params, fields, now, seqVars, histVars, concVars, retryArgs,
                retryVars, fbVars, twVars, genVars, quizVars, storeVars,
                healthVars, excVars, modelVars, apiVars>>

InitTaxonomy ==
    /\ BreakerDefaults
    /\ BreakerFresh
    /\ now = 0
    /\ SeqIdle
    /\ ConcIdle
    /\ RetryDefaults
    /\ RetryIdle
    /\ LayerIdle

\* validate_verb(verb, level)
ValidateVerbCall ==
    /\ \E verb \in VerbInputs, level \in LevelInputs :
          /\ vverb' = verb
          /\ vlevel' = level
          /\ vresult' = ValidateVerb(verb, level)
    /\ UNCHANGED <<VERBS, lists, copy, has_copy>>
    /\ TaxFrame

\* get_all_verbs (line 325): cls.VERBS.copy() is a new dict holding the same
\* list objects
GetAllVerbs ==
    /\ copy' = VERBS
    /\ has_copy' = TRUE
    /\ UNCHANGED <<VERBS, lists, vverb, vlevel, vresult>>
    /\ TaxFrame

\* the caller: all_verbs["Custom"] = ["zap"]
CopyAddLevel ==
    /\ has_copy
    /\ "Custom" \notin DOMAIN copy
    /\ copy' = [l \in DOMAIN copy \cup {"Custom"} |->
                   IF l = "Custom" THEN "custom" ELSE copy[l]]
    /\ lists' = [r \in DOMAIN lists \cup {"custom"} |->
                    IF r = "custom" THEN <<Word("zap")>> ELSE lists[r]]
    /\ UNCHANGED <<VERBS, has_copy, vverb, vlevel, vresult>>
    /\ TaxFrame

\* the caller: del all_verbs[level]
CopyRemoveLevel ==
    /\ has_copy
    /\ \E level \in DOMAIN copy :
          copy' = [l \in DOMAIN copy \ {level} |-> copy[l]]
    /\ UNCHANGED <<VERBS, lists, has_copy, vverb, vlevel, vresult>>
    /\ TaxFrame

\* the caller: all_verbs[level].append("zap"), level one of the levels
\* the dict came with
CopyAppendVerb ==
    /\ has_copy
    /\ \E level \in DOMAIN copy \cap Levels :
          /\ Len(lists[copy[level]]) < MaxListLen
          /\ lists' = [lists EXCEPT ![copy[level]] = Append(@, Word("zap"))]
    /\ UNCHANGED <<VERBS, copy, has_copy, vverb, vlevel, vresult>>
    /\ TaxFrame

\* the caller: all_verbs[level].remove(verb), level one of the levels the
\* dict came with
CopyRemoveVerb ==
    /\ has_copy
    /\ \E level \in DOMAIN copy \cap Levels :
          \E i \in 1..Len(lists[copy[level]]) :
              lists' = [lists EXCEPT ![copy[level]] =
                           RemoveFirst(@, lists[copy[level]][i])]
    /\ UNCHANGED <<VERBS, copy, has_copy, vverb, vlevel, vresult>>
    /\ TaxFrame

NextTaxonomy ==
    \/ ValidateVerbCall
    \/ GetAllVerbs
    \/ CopyAddLevel
    \/ CopyRemoveLevel
    \/ CopyAppendVerb
    \/ CopyRemoveVerb

SpecTaxonomy == InitTaxonomy /\ [][NextTaxonomy]_vars

\* the verbs VERBS holds for a level, as a set of lower-case words
ListedFor(level) == {w.base : w \in Range(lists[VERBS[level]])}

\* C27: a call validate_verb(verb, level) gives true exactly when level is a
\* key of VERBS and the verb, trimmed and lowercased, is in the list VERBS
\* holds for that level; for a level that is no key it gives false.
C27_ValidateVerbNormalises ==
    [][(/\ UNCHANGED <<VERBS, lists, copy, has_copy>>
        /\ <<vverb, vlevel, vresult>>' # <<vverb, vlevel, vresult>>)
       => /\ vresult' = (/\ vlevel' \in DOMAIN VERBS
                         /\ vverb'.base \in ListedFor(vlevel'))
          /\ vlevel' \notin Levels => ~vresult']_vars

\* an approved verb given capitalised and padded was accepted
C27_Witness ==
    /\ vlevel = "Understand"
    /\ vverb = [base |-> "explain", cased |-> TRUE, pad |-> TRUE]
    /\ vresult
    /\ lists = CanonicalVerbs

\* the table validate_verb reads: level -> verbs
VerbTable == [l \in DOMAIN VERBS |-> lists[VERBS[l]]]

\* C28: whatever a caller does to the dict returned by get_all_verbs(), the
\* table behind VERBS stays as written in the class, and so does every
\* result of validate_verb.
C28_CanonicalTableUntouched ==
    /\ VerbTable = CanonicalVerbs
    /\ vlevel # "" =>
          vresult = (vlevel \in Levels
                     /\ vverb.base \in
                           {w.base : w \in Range(CanonicalVerbs[vlevel])})

\* after an append through the returned dict, "zap" validates for Remember
C28_Witness ==
    /\ has_copy
    /\ vverb.base = "zap"
    /\ vlevel = "Remember"
    /\ vresult
    /\ VerbTable # CanonicalVerbs

\* ---------------------------------------------------------- ObjectiveStore
\* The global store of api/objective_store.py, filled by the objectives
\* endpoint (api/main.py 188-189) with whatever ids the model produced.

ObjectiveIds == {"LO-001", "LO-002", "LO-003"}

\* LearningObjective values: an id and the rest of the fields
Objectives == [id : ObjectiveIds, content : {"a", "b"}]

Batches == UNION {[1..k -> Objectives] : k \in 0..MaxBatch}

\* self._objectives[objective.id] = objective (line 27)
Put(d, o) == [i \in DOMAIN d \cup {o.id} |-> IF i = o.id THEN o ELSE d[i]]

\* the loop of add_objectives (lines 36-37)
RECURSIVE PutAll(_, _)
PutAll(d, batch) ==
    IF batch = <<>> THEN d ELSE PutAll(Put(d, Head(batch)), Tail(batch))

StoreFrame ==
    UNCHANGED <<params, fields, now, seqVars, histVars, concVars, retryArgs,
                retryVars, fbVars, twVars, genVars, quizVars, taxVars,
                healthVars, excVars, modelVars, apiVars>>

InitStore ==
    /\ BreakerDefaults
    /\ BreakerFresh
    /\ now = 0
    /\ SeqIdle
    /\ ConcIdle
    /\ RetryDefaults
    /\ RetryIdle
    /\ LayerIdle

\* add_objective
AddObjective ==
    /\ \E o \in Objectives : objectives' = Put(objectives, o)
    /\ UNCHANGED <<got_id, got>>
    /\ StoreFrame

\* add_objectives
AddObjectives ==
    /\ \E batch \in Batches : objectives' = PutAll(objectives, batch)
    /\ UNCHANGED <<got_id, got>>
    /\ StoreFrame

\* get_objective: self._objectives.get(objective_id)
GetObjective ==
    /\ \E i \in ObjectiveIds :
          /\ got_id' = i
          /\ got' = IF i \in DOMAIN objectives THEN objectives[i]
                    ELSE NoObjective
    /\ UNCHANGED objectives
    /\ StoreFrame

\* clear
Clear ==
    /\ objectives' = [i \in {} |-> NoObjective]
    /\ UNCHANGED <<got_id, got>>
    /\ StoreFrame

NextStore ==
    \/ AddObjective
    \/ AddObjectives
    \/ GetObjective
    \/ Clear

SpecStore == InitStore /\ [][NextStore]_vars

\* C29: an objective stored under an id stays stored under it, unchanged,
\* through every step that does not empty the store; and get_objective
\* answers with what is stored.
C29_StoredObjectiveKept ==
    [][/\ \A i \in DOMAIN objectives :
             \/ objectives' = [j \in {} |-> NoObjective]
             \/ (i \in DOMAIN objectives' /\ objectives'[i] = objectives[i])
       /\ (got_id' # got_id \/ got' # got) =>
             (got_id' \in DOMAIN objectives => got' = objectives[got_id'])]_vars

\* get_objective("LO-001") answered with one objective, and the store now
\* holds another under that id
C29_Witness ==
    /\ got_id = "LO-001"
    /\ got = [id |-> "LO-001", content |-> "a"]
    /\ "LO-001" \in DOMAIN objectives
    /\ objectives["LO-001"] = [id |-> "LO-001", content |-> "b"]

\* ----------------------------------------------------------------- /health
\* health_check of api/main.py, called at any moment while requests go
\* through the global circuit breaker.

\* what test_ollama_connection and get_model_info do: the connection test
\* reports "ok" or "error", or one of the two raises
ProbeOutcomes == {"ok", "error", "raises"}

HealthFrame ==
    UNCHANGED <<params, fields, now, seqVars, histVars, concVars, retryArgs,
                retryVars, fbVars, twVars, genVars, quizVars, taxVars,
                storeVars, excVars, modelVars, apiVars>>

InitHealth ==
    /\ BreakerDefaults
    /\ BreakerFresh
    /\ now = 0
    /\ SeqIdle
    /\ ConcIdle
    /\ RetryDefaults
    /\ RetryIdle
    /\ LayerIdle

\* lines 104-127
HealthCheck ==
    /\ \E o \in ProbeOutcomes :
          /\ ollama_connected' = (o = "ok")
          /\ health_status' = IF o = "raises" THEN "error"
                              ELSE IF o = "ok" THEN "healthy"
                              ELSE "degraded"
    /\ checked_state' = state
    /\ HealthFrame

NextHealth ==
    \/ HealthCheck
    \/ CallEnter
    \/ CallReject
    \/ FuncReturns
    \/ FuncRaises
    \/ Reset
    \/ Tick

SpecHealth == InitHealth /\ [][NextHealth]_vars

\* C30: when /health answered while the breaker was OPEN, the status it
\* reported is "degraded".
C30_OpenBreakerDegraded ==
    checked_state = OPEN => health_status = "degraded"

\* /health answered "healthy" while the breaker was OPEN
C30_Witness ==
    /\ checked_state = OPEN
    /\ state = OPEN
    /\ ollama_connected
    /\ health_status = "healthy"

\* ------------------------------------------------ domain object construction
\* LearningObjective(...), CourseStructure(...) and QuizQuestion(...) of
\* core/models.py, called with every field present and every text a str.
\* pydantic accepts any str for a field declared `str = Field(...)`.

EmptyText == Text("", 0, FALSE, 0)
BlankText == Text("", 0, FALSE, 1)

\* keyword arguments of LearningObjective: verb and content empty or not, a
\* level that is a BloomLevel or is none
ObjectiveArgs ==
    [id : {"LO-001"},
     verb : {EmptyText, Text("explain", 7, FALSE, 0)},
     content : {EmptyText, Text("content", 12, FALSE, 0)},
     level : Levels \cup {"Bogus"}]

\* keyword arguments of CourseStructure: topic empty, blank or not, up to
\* MaxBatch objectives
CourseArgs ==
    [topic : {EmptyText, BlankText, Text("topic", 5, FALSE, 0)},
     objectives : UNION {[1..k -> ObjectiveArgs] : k \in 0..MaxBatch}]

\* keyword arguments of QuizQuestion: those of Quizzes, and an empty stem or
\* explanation
QuizArgs ==
    [stem : Stems \cup {EmptyText}, correct_answer : CorrectAnswers,
     distractors : DistractorLists, explanation : Explanations \cup {EmptyText}]

\* LearningObjective (models.py 28-34): level must be a BloomLevel
LearningObjectiveOk(a) == a.level \in Levels

\* CourseStructure (models.py 37-45): min_length=1, each objective valid
CourseStructureOk(a) ==
    /\ Len(a.objectives) >= 1
    /\ \A i \in 1..Len(a.objectives) : LearningObjectiveOk(a.objectives[i])

ModelFrame ==
    UNCHANGED <<params, fields, now, seqVars, histVars, concVars, retryArgs,
                retryVars, fbVars, twVars, genVars, quizVars, taxVars,
                storeVars, healthVars, excVars, apiVars>>

InitModels ==
    /\ BreakerDefaults
    /\ BreakerFresh
    /\ now = 0
    /\ SeqIdle
    /\ ConcIdle
    /\ RetryDefaults
    /\ RetryIdle
    /\ LayerIdle

\* LearningObjective(id=..., verb=..., content=..., level=...)
NewLearningObjective ==
    /\ \E a \in ObjectiveArgs :
          /\ built_args' = a
          /\ built_result' = IF LearningObjectiveOk(a) THEN "ok"
                             ELSE "ValidationError"
    /\ built_cls' = "LearningObjective"
    /\ ModelFrame

\* CourseStructure(topic=..., objectives=[...])
NewCourseStructure ==
    /\ \E a \in CourseArgs :
          /\ built_args' = a
          /\ built_result' = IF CourseStructureOk(a) THEN "ok"
                             ELSE "ValidationError"
    /\ built_cls' = "CourseStructure"
    /\ ModelFrame

\* QuizQuestion(stem=..., correct_answer=..., distractors=[...],
\* explanation=...)
NewQuizQuestion ==
    /\ \E a \in QuizArgs :
          /\ built_args' = a
          /\ built_result' = IF SchemaOk(a) THEN "ok" ELSE "ValidationError"
    /\ built_cls' = "QuizQuestion"
    /\ ModelFrame

NextModels ==
    \/ NewLearningObjective
    \/ NewCourseStructure
    \/ NewQuizQuestion

SpecModels == InitModels /\ [][NextModels]_vars

\* the arguments hold an empty string in a required text field (for the
\* topic of a CourseStructure: an empty or whitespace-only one)
HasEmptyText ==
    CASE built_cls = "LearningObjective" ->
            Falsy(built_args.verb) \/ Falsy(built_args.content)
      [] built_cls = "CourseStructure" ->
            Falsy(StripText(built_args.topic))
      [] built_cls = "QuizQuestion" ->
            \/ Falsy(built_args.stem)
            \/ Falsy(built_args.correct_answer)
            \/ Falsy(built_args.explanation)
            \/ \E i \in 1..Len(built_args.distractors) :
                  Falsy(built_args.distractors[i])
      [] OTHER -> FALSE

\* C31: a construction whose arguments hold an empty string in a required
\* text field has ended in a validation error.
C31_EmptyTextRejected ==
    (built_result # "none" /\ HasEmptyText) => built_result = "ValidationError"

\* LearningObjective(id="LO-001", verb="explain", content="",
\* level="Understand") was constructed
C31_Witness ==
    /\ built_cls = "LearningObjective"
    /\ built_args.verb = Text("explain", 7, FALSE, 0)
    /\ built_args.content = EmptyText
    /\ built_args.level = "Understand"
    /\ built_result = "ok"

\* ---------------------------------------- CircuitBreaker: reset and recovery

\* C32: every reset() leaves the parameters alone and puts the breaker, from
\* whatever state it was in, into the state of a freshly constructed one:
\* CLOSED, failures = 0, last_failure_time unset, half_open_success_count = 0,
\* no call history; a reset() of a breaker in that state changes nothing.
C32_ResetRestoresFresh ==
    [][Reset =>
          /\ BreakerFresh'
          /\ SeqIdle'
          /\ UNCHANGED params
          /\ (BreakerFresh /\ SeqIdle) =>
                UNCHANGED <<fields, seqVars, histVars>>]_vars

\* reset() ran, and the call after it failed and counted as the first
\* failure of a breaker that needs two to open
C32_Witness ==
    /\ resets
    /\ failure_threshold >= 2
    /\ state = CLOSED
    /\ failures = 1
    /\ run = 1
    /\ outcome = "raised"
    /\ now < timeout_seconds * TicksPerSecond

\* Recovery is a property of the behaviours in which time keeps advancing,
\* calls keep arriving, every call comes to an end, and func fails only up
\* to some moment (MaxTime). The clock of these behaviours runs one full
\* cooldown further than MaxTime.
RecoverHorizon == MaxTime + MaxTimeoutSeconds * TicksPerSecond

\* the clock advances
TickRecover ==
    /\ now < RecoverHorizon
    /\ now' = now + 1
    /\ UNCHANGED <<params, fields, seqVars, histVars, concVars, retryArgs,
                   retryVars, layerVars>>

\* lines 121-126: func raised, which it does before MaxTime only
FuncRaisesEarly ==
    /\ now < MaxTime
    /\ FuncRaises

NextRecover ==
    \/ CallEnter
    \/ CallReject
    \/ FuncReturns
    \/ FuncRaisesEarly
    \/ TickRecover

SpecRecover ==
    /\ Init
    /\ [][NextRecover]_vars
    /\ WF_vars(TickRecover)
    /\ WF_vars(CallEnter)
    /\ WF_vars(CallReject)
    /\ WF_vars(FuncReturns)

\* C33: an OPEN breaker eventually is CLOSED again, when time advances,
\* calls keep arriving and from some moment on every admitted call succeeds.
C33_OpenEventuallyCloses == (state = OPEN) ~> (state = CLOSED)

\* the breaker opened, let a call through after the cooldown, and closed on
\* the successes of HALF_OPEN
C33_Witness ==
    /\ state = CLOSED
    /\ fullRun
    /\ last_failure_time # None
    /\ half_open_attempts = MaxHalfOpenAttempts
    /\ hoSucc = half_open_attempts
    /\ now >= last_failure_time + timeout_seconds * TicksPerSecond

\* ------------------------------------ CircuitBreaker.call: what func raises
\* One caller at a time, with the class of the exception in view.

\* subclasses of Exception that func raises: one of the caller's, and the
\* two that timeout_wrapper and the retry wrapper raise
ExceptionClasses ==
    {"ValueError", "GenerationTimeoutError", "MaxRetriesExceededError"}

\* what func can raise: those, or a BaseException that is no Exception
CallKinds == ExceptionClasses \cup {"KeyboardInterrupt"}

\* the except clause not matching GenerationTimeoutError
CaughtByCall_NotTimeouts(kind) ==
    kind \in ExceptionClasses \ {"GenerationTimeoutError"}

\* line 121: except Exception as e
CaughtByCall(kind) == kind \in ExceptionClasses

\* lines 112-126: func raised an exception of class k. The except clause
\* runs _on_failure and re-raises it (126); an exception the clause does not
\* match leaves call() with no handler run.
FuncRaisesKind ==
    /\ pc = "func"
    /\ \E k \in CallKinds :
          /\ func_exc' = k
          /\ call_exc' = k
          /\ IF CaughtByCall(k)
             THEN /\ OnFailure(now)
                  /\ run' = run + 1
                  /\ fullRun' = (fullRun \/ run + 1 >= failure_threshold)
             ELSE UNCHANGED <<fields, run, fullRun>>
    /\ outcome' = "raised"
    /\ pc' = "idle"
    /\ UNCHANGED <<params, now, remaining_msg, retry_after_seconds, allFail,
                   hoSucc, concVars, retryArgs, retryVars, fbVars, twVars,
                   genVars, quizVars, taxVars, storeVars, healthVars,
                   modelVars, apiVars>>

NextKinds ==
    \/ CallEnter
    \/ CallReject
    \/ FuncReturns
    \/ FuncRaisesKind
    \/ Tick

SpecKinds == Init /\ [][NextKinds]_vars

\* a step in which func, admitted by call(), raises
FuncRaised == pc = "func" /\ outcome' = "raised" /\ pc' = "idle"

\* the step counts one failure and hands the exception of func to the caller
CountedOnce ==
    /\ failures' = failures + 1
    /\ last_failure_time' = now
    /\ call_exc' = func_exc'

\* C34 as stated: every exception func raises, of whatever class, is counted
\* as one failure and re-raised.
C34_EveryExceptionCounted == [][FuncRaised => CountedOnce]_vars

\* C34: every exception func raises that is an instance of Exception
\* (GenerationTimeoutError and MaxRetriesExceededError included) is counted
\* as one failure, stamps last_failure_time and is re-raised.
C34_ExceptionInstancesCounted ==
    [][(FuncRaised /\ func_exc' \in ExceptionClasses) => CountedOnce]_vars

\* a GenerationTimeoutError of func was counted and re-raised
C34_Witness ==
    /\ outcome = "raised"
    /\ func_exc = "GenerationTimeoutError"
    /\ call_exc = "GenerationTimeoutError"
    /\ failures = 2
    /\ last_failure_time = now
    /\ now > 0

\* ------------------------------------- CircuitBreaker under concurrent calls

\* thread t calls func in this step (line 114)
Invokes(t) == tpc[t] = "invoke" /\ tpc'[t] = "func"

\* the breaker is OPEN and its cooldown has not elapsed
OpenAndCooling == state = OPEN /\ ~ShouldAttemptReset(now)

\* C35: no thread calls func in a step that starts with the breaker OPEN and
\* its cooldown not elapsed.
C35_NoInvocationWhileOpen ==
    [][\A t \in Threads : Invokes(t) => ~OpenAndCooling]_vars

\* thread 1 has passed the gate and calls func next; the failure of thread 2
\* has opened the breaker meanwhile, and no reset() ran
C35_Witness ==
    /\ tpc[1] = "invoke"
    /\ toutcome[2] = "raised"
    /\ OpenAndCooling
    /\ ~resets

\* C36: whenever the breaker is OPEN or HALF_OPEN, failures is at least
\* failure_threshold and last_failure_time is set.
C36_OpenImpliesThresholdReached ==
    state \in {OPEN, HALF_OPEN} =>
        /\ failures >= failure_threshold
        /\ last_failure_time # None

\* a call admitted while CLOSED returned after another call's failure had
\* opened the breaker, and zeroed failures; no reset() ran
C36_Witness ==
    /\ state = OPEN
    /\ failures = 0
    /\ last_failure_time # None
    /\ toutcome[1] = "returned"
    /\ toutcome[2] = "raised"
    /\ ~resets

\* ------------------------------------------- CircuitBreaker: rejected calls

\* a step of a call that ends in CircuitBreakerOpenError: the gate finding
\* the breaker OPEN and cooling, or the raise
Rejecting == pc' = "reject" \/ pc = "reject"

\* C37: the steps of a rejected call change none of state, failures,
\* last_failure_time and half_open_success_count.
C37_RejectionChangesNothing == [][Rejecting => UNCHANGED fields]_vars

\* a call was rejected some time after the failure that opened the breaker
C37_Witness ==
    /\ pc = "idle"
    /\ outcome = "rejected"
    /\ state = OPEN
    /\ failures = failure_threshold
    /\ half_open_success_count = 0
    /\ last_failure_time # None
    /\ now > last_failure_time

\* ----------------------------------------- POST /api/v1/generate/objectives
\* generate_objectives of api/main.py. The handler is a coroutine that never
\* awaits, so a request runs from its first line to its answer with no other
\* request in between.

\* course_structure.objectives as the store sees them: k objectives with
\* the ids the model gave them, which may repeat; their other fields are
\* the same in all
StoredBatches(k) ==
    {b \in Batches : Len(b) = k /\ \A i \in 1..k : b[i].content = "a"}

\* the except clause of line 196: ValueError and its subclasses, which
\* pydantic's ValidationError and json.JSONDecodeError are
IsValueError(e) == e \in {"ValueError", "ValidationError", "JSONDecodeError"}

\* the handler storing whatever objectives the model's answer held
HandlerStores_Always(r, n) == r.kind # "raises"

\* lines 181-189: add_objectives is reached when architect.generate_objectives
\* has returned
HandlerStores(r, n) == GenerateOnce(r, n) = "ok"

ApiFrame ==
    UNCHANGED <<params, fields, now, seqVars, histVars, concVars, retryArgs,
                retryVars, fbVars, twVars, quizVars, taxVars, healthVars,
                excVars, modelVars>>

InitApi ==
    /\ BreakerDefaults
    /\ BreakerFresh
    /\ now = 0
    /\ SeqIdle
    /\ ConcIdle
    /\ RetryDefaults
    /\ RetryIdle
    /\ LayerIdle

\* what the model answers to a request for at most MaxBatch objectives:
\* the answers with at most MaxBatch objectives
ApiResponses == {r \in Responses : Len(r.objectives) <= MaxBatch}

\* lines 161-176, 241-243: configure_dspy() raises, the request ends with 503
EndpointConfigureFails ==
    /\ store_before' = objectives
    /\ http_status' = 503
    /\ failed_at' = "configure"
    /\ UNCHANGED <<objectives, got_id, got, genVars>>
    /\ ApiFrame

\* what architect.generate_objectives(n) does with the answer r, lines
\* 181-185
ApiGenerate(r, n) ==
    /\ num_objectives' = n
    /\ backend' = r
    /\ backend_calls' = 1
    /\ gen_error' = GenerateOnce(r, n)
    /\ gen_rules' = ReportedRules(r, n)
    /\ returned_count' = IF GenerateOnce(r, n) = "ok" THEN r.count ELSE None
    /\ gpc' = IF GenerateOnce(r, n) = "ok" THEN "returned" ELSE "raised"

\* lines 161-185, 196-209, 241-273: generate_objectives raises and the
\* request ends with 422 for a ValueError (196) and with 500 otherwise (260)
EndpointGenerationFails ==
    /\ store_before' = objectives
    /\ \E n \in 1..MaxBatch, r \in ApiResponses :
          /\ ~HandlerStores(r, n)
          /\ ApiGenerate(r, n)
          /\ http_status' = IF IsValueError(GenerateOnce(r, n)) THEN 422
                            ELSE 500
    /\ failed_at' = "generate"
    /\ UNCHANGED <<objectives, got_id, got>>
    /\ ApiFrame

\* lines 161-194, 211-273: generate_objectives returns, the objectives are
\* stored (188-189), and the answer is built (200) or building it raises
\* (500)
EndpointStores ==
    /\ store_before' = objectives
    /\ \E n \in 1..MaxBatch, r \in ApiResponses :
          /\ HandlerStores(r, n)
          /\ ApiGenerate(r, n)
          /\ \E b \in StoredBatches(Len(r.objectives)) :
                objectives' = PutAll(objectives, b)
    /\ \E resp \in BOOLEAN :
          /\ http_status' = IF resp THEN 200 ELSE 500
          /\ failed_at' = IF resp THEN "none" ELSE "respond"
    /\ UNCHANGED <<got_id, got>>
    /\ ApiFrame

NextApi ==
    \/ EndpointConfigureFails
    \/ EndpointGenerationFails
    \/ EndpointStores

SpecApi == InitApi /\ [][NextApi]_vars

\* C38: after a request whose configuration or generation failed the store
\* is as the request found it; and when a request changed the store,
\* generate_objectives had returned a CourseStructure that passes its
\* checks: approved verbs and the requested number of objectives.
C38_StoresOnlyValidated ==
    /\ failed_at \in {"configure", "generate"} => objectives = store_before
    /\ objectives # store_before =>
          /\ gpc = "returned"
          /\ gen_error = "ok"
          /\ UnapprovedVerbs(backend) = {}
          /\ backend.count = num_objectives

\* a request failed on an unapproved verb (500) and left alone what an
\* earlier request had stored
C38_Witness ==
    /\ failed_at = "generate"
    /\ gen_error = "AssertionError"
    /\ http_status = 500
    /\ backend.count = num_objectives
    /\ DOMAIN objectives = {"LO-001", "LO-002"}
    /\ objectives = store_before

\* ------------------------------------------------ Assessor.forward, its end
\* Every call of super().forward comes to an end, returning or raising (the
\* language model client is configured with a request timeout).
SpecAssessorFair == SpecAssessor /\ WF_vars(QuizAnswer)

\* super().forward raises, in this step, an exception that is neither a
\* ValueError nor a ValidationError
BackendFails == QuizAnswered /\ qbackend'.kind = "Exception"

\* C39: forward never calls the backend more than 3 times for a request;
\* when the backend call raises an exception that is neither a ValueError
\* nor a ValidationError, that call is the request's last and forward
\* raises; and every request ends, with a prediction or with an error.
C39_BoundedAttemptsAndEnd ==
    /\ [](qcalls <= max_retries)
    /\ [][BackendFails =>
             /\ qpc' = "raised"
             /\ qerror' = "ValueError"
             /\ qattempt' = qattempt]_vars
    /\ (qpc = "backend") ~> (qpc \in {"returned", "raised"})

\* the first backend call of a request raised an unexpected exception and
\* forward raised at once
C39_Witness ==
    /\ qpc = "raised"
    /\ qbackend.kind = "Exception"
    /\ qattempt = 0
    /\ qcalls = 1
    /\ qerror = "ValueError"

====
